---- MODULE Spec2Model ----
(***************************************************************************)
(* Model of the rustos kernel core: the bin allocator                      *)
(* (kern/src/allocator/bin.rs) and the process scheduler                   *)
(* (kern/src/process/scheduler.rs, process.rs, traps/syscall.rs).          *)
(***************************************************************************)
EXTENDS Integers, Naturals, Sequences, FiniteSets, TLC

VARIABLES
    bins,        \* Allocator.bins: class k -> list of block addresses, head first
    live,        \* allocations handed out and not yet returned: [ptr, size, align]
    heap,        \* the (start, end) pair given to Allocator::new
    aop,         \* the allocator call that produced this state
    aret,        \* the pointer returned by the last alloc
    areq,        \* the layout of the last alloc or dealloc
    panicked,    \* align_up panicked inside the last call
    processes,   \* Scheduler.processes: the queue, front first
    last_id,     \* Scheduler.last_id: NONE or the last PID handed out
    tf,          \* the trap frame of the CPU: the registers of the user context
    now,         \* the system timer, in milliseconds
    pc,          \* where the CPU is: "boot", "user", "idle" (wfi in switch_to)
                 \* or "hung" (the loop of handle_exception)
    sop,         \* the scheduler call that produced this state
    sret,        \* the value it returned: a PID or NONE
    issued,      \* the PIDs add has returned, in order
    ticks,       \* timer interrupts delivered since start
    ran,         \* the PIDs dispatched since start
    compare,     \* the time of the next match of timer 1, NONE before start
    prog,        \* PID -> where its user program stands and what it has read
    pt,          \* a UserPageTable on its own, NoTable when there is none
    called,      \* the virtual addresses UserPageTable::alloc has mapped in pt,
                 \* kept after the drop of pt until the next table is made
    lock,        \* the Mutex of GlobalScheduler is held
    pend,        \* the new_state of the GlobalScheduler::switch in progress
    counter,     \* the free-running counter of the system timer (CHI:CLO)
    rd,          \* the Timer::read in progress and the values read so far
    kern,        \* the KernPageTable::new in progress: its memory map and cursor
    located      \* the last call of PageTable::locate: its address and outcome

avars == <<bins, live, heap, aop, aret, areq, panicked>>

svars == <<processes, last_id, tf, now, pc, sop, sret, issued>>

kvars == <<lock, pend, counter, rd, kern, located>>

gvars == <<ticks, ran, compare, prog, pt, called, lock, pend, counter, rd,
           kern, located>>

vars == <<bins, live, heap, aop, aret, areq, panicked,
          processes, last_id, tf, now, pc, sop, sret, issued,
          ticks, ran, compare, prog, pt, called,
          lock, pend, counter, rd, kern, located>>

(***************************************************************************)
(* Bounds of the model.                                                    *)
(***************************************************************************)
MaxLen == 48          \* longest managed range, in bytes
MaxLive == 3          \* most allocations live at the same time
FillLen == 1024       \* length of the range filled with 8-byte allocations
IdMax == 3            \* largest value of the PID type Id (u64::MAX in the code)
MaxProcs == 2         \* most processes in the queue at the same time
MaxRR == 4            \* most processes of a round-robin run
MaxTicks == 32        \* most timer interrupts of a round-robin run
TICK == 2             \* the scheduler quantum, in milliseconds
TimedProcs == 3       \* most processes of a timed run
MaxTTime == 6         \* last time of a timed run
PageBits == 4         \* a page is 2^PageBits bytes (16 in the code)
L3Bits == 1           \* an L3 table has 2^L3Bits entries (13 in the code)
PtPages == 3          \* pages of memory under the allocator in a page-table run
MaxCode == 2          \* most pages of a program image
ExitPages == 5        \* pages of memory under the allocator in a run with exits
StepProcs == 3        \* processes initialize adds in a step-by-step run
StepTime == 1         \* the timer stops advancing here in a step-by-step run
MsBits == 1           \* bits of the u32 that sys_sleep takes (32 in the code)
CloBits == 1          \* bits of the register CLO (32 in the code)
TimerMax == 6         \* the counter stops here in a run of timer reads
PickLen == 64         \* length of the range in a run that picks among nodes
BwProcs == 3          \* processes added in a run with processes waiting their turn
BwTime == 1           \* the timer stops advancing here in such a run
CallProcs == 2        \* processes in a run of system calls that return
CallTime == 1         \* the timer stops advancing here in such a run
MaxTime == 1          \* the timer stops advancing here
MaxSleep == 1         \* longest sleep requested, in milliseconds

(***************************************************************************)
(* Program constants.                                                      *)
(***************************************************************************)
NBINS == 30
NULL == 0
PANIC == -1

Bins == 0 .. (NBINS - 1)

Max(a, b) == IF a >= b THEN a ELSE b

BlockSize(bin) == 2 ^ (bin + 3)

RECURSIVE next_power_of_two_from(_, _)
next_power_of_two_from(p, n) ==
    IF p >= n THEN p ELSE next_power_of_two_from(2 * p, n)

next_power_of_two(n) == next_power_of_two_from(1, n)

IsPowerOfTwo(n) == n >= 1 /\ next_power_of_two(n) = n

\* align_up that forgets to round: the address is returned as it is.
align_up_noround(addr, align) ==
    IF ~IsPowerOfTwo(align) THEN PANIC ELSE addr

align_up(addr, align) ==
    IF ~IsPowerOfTwo(align) THEN PANIC
    ELSE IF addr % align = 0 THEN addr
    ELSE (addr - (addr % align)) + align

EmptyBins == [k \in Bins |-> <<>>]

\* LinkedList::push links the block in front of the current head.
push(list, addr) == <<addr>> \o list

\* Node::pop unlinks the i-th node of the list.
pop(list, i) == SubSeq(list, 1, i - 1) \o SubSeq(list, i + 1, Len(list))

\* The loop test `curr + block_size <= end`.  Every range of the model ends
\* below 2^30, where a block of 2^31 bytes or more never fits: for those
\* classes the test is decided without computing the power, which the
\* 32-bit integers of the model checker cannot hold.
BlockFits(curr, bin, end) ==
    IF bin + 3 > 30 THEN FALSE ELSE curr + BlockSize(bin) <= end

RECURSIVE absorb_from(_, _, _, _)
absorb_from(b, bin, curr, end) ==
    IF BlockFits(curr, bin, end)
    THEN absorb_from([b EXCEPT ![bin] = push(b[bin], curr)], bin,
                     curr + BlockSize(bin), end)
    ELSE IF bin > 0 THEN absorb_from(b, bin - 1, curr, end)
    ELSE b

RECURSIVE absorb_leak_from(_, _, _, _)
absorb_leak_from(b, bin, curr, end) ==
    IF BlockFits(curr, bin, end)
    THEN absorb_leak_from([b EXCEPT ![bin] = push(b[bin], curr)], bin,
                          curr + BlockSize(bin), end)
    ELSE IF bin > 1 THEN absorb_leak_from(b, bin - 1, curr, end)
    ELSE b

\* absorb_memory whose loop stops above class 0: tails of 8 bytes are lost.
absorb_memory_leak(b, start, end) == absorb_leak_from(b, NBINS - 1, start, end)

absorb_memory(b, start, end) == absorb_from(b, NBINS - 1, start, end)

\* target_size that forgets to round the size up to a power of two.
target_size_noround(size, align) ==
    IF size > align THEN size
    ELSE IF align > 8 THEN align
    ELSE 8

target_size(size, align) ==
    IF next_power_of_two(size) > align
    THEN (IF next_power_of_two(size) > 8 THEN next_power_of_two(size) ELSE 8)
    ELSE IF align > 8 THEN align
    ELSE 8

target_align(align) == IF align > 8 THEN align ELSE 8

\* The fit test without the size of the request.
Accommodates_nosize(node, bin, size, align) ==
    align_up(node, target_align(align)) # PANIC
    /\ align_up(node, target_align(align)) <= node + BlockSize(bin)

\* A node of class `bin` can hold an aligned sub-block of the target size.
Accommodates(node, bin, size, align) ==
    align_up(node, target_align(align)) # PANIC
    /\ align_up(node, target_align(align)) + target_size(size, align)
         <= node + BlockSize(bin)

\* The position in the list of the node the scan of one class settles on:
\* the first exact-start node, or else the node last stored in good_node;
\* 0 when the class holds no accommodating node.
ChosenNode(list, bin, size, align) ==
    LET ok == {i \in 1 .. Len(list) : Accommodates(list[i], bin, size, align)}
        exact == {i \in ok : list[i] = align_up(list[i], target_align(align))}
    IN  IF exact # {} THEN CHOOSE i \in exact : \A j \in exact : i <= j
        ELSE IF ok # {} THEN CHOOSE i \in ok : \A j \in ok : i >= j
        ELSE 0

\* The body of the `while bin < 30` loop from class `bin` upwards.
RECURSIVE alloc_from(_, _, _, _)
alloc_from(b, bin, size, align) ==
    IF bin >= NBINS THEN [ptr |-> NULL, bins |-> b]
    ELSE LET i == ChosenNode(b[bin], bin, size, align)
         IN  IF i = 0 THEN alloc_from(b, bin + 1, size, align)
             ELSE LET start == b[bin][i]
                      soa == align_up(start, target_align(align))
                      popped == [b EXCEPT ![bin] = pop(b[bin], i)]
                      head == IF start = soa THEN popped
                              ELSE absorb_memory(popped, start, soa)
                  IN  [ptr |-> soa,
                       bins |-> absorb_memory(head,
                                    soa + target_size(size, align),
                                    start + BlockSize(bin))]

\* alloc whose class loop ends after class 0.
alloc_first_class(b, size, align) ==
    IF ChosenNode(b[0], 0, size, align) = 0 THEN [ptr |-> NULL, bins |-> b]
    ELSE alloc_from(b, 0, size, align)

alloc(b, size, align) == alloc_from(b, 0, size, align)

\* The target size of dealloc without the alignment of the layout.
dealloc_target_size_noalign(size, align) ==
    IF next_power_of_two(size) > 8 THEN next_power_of_two(size) ELSE 8

\* target_size as dealloc computes it, in its own copy of the expression.
dealloc_target_size(size, align) ==
    IF next_power_of_two(size) > align
    THEN (IF next_power_of_two(size) > 8 THEN next_power_of_two(size) ELSE 8)
    ELSE IF align > 8 THEN align
    ELSE 8

\* dealloc that merges the block with the free block of the same size that
\* follows it, when the list of its class holds one.
dealloc_coalesce(b, ptr, size, align) ==
    LET B == dealloc_target_size(size, align)
        k == CHOOSE j \in Bins : BlockSize(j) = B
        at == {i \in 1 .. Len(b[k]) : b[k][i] = ptr + B}
    IN  IF at = {} THEN absorb_memory(b, ptr, ptr + B)
        ELSE absorb_memory([b EXCEPT ![k] = pop(b[k], CHOOSE i \in at : TRUE)],
                           ptr, ptr + 2 * B)

\* dealloc that returns nothing to the free lists.
dealloc_lose(b, ptr, size, align) == b

\* dealloc that returns twice the block it was given.
dealloc_double(b, ptr, size, align) ==
    absorb_memory(b, ptr, ptr + 2 * dealloc_target_size(size, align))

dealloc(b, ptr, size, align) ==
    absorb_memory(b, ptr, ptr + dealloc_target_size(size, align))

\* align_up panics on an alignment that is not a power of two.
AllocPanics(b, size, align) == ~IsPowerOfTwo(target_align(align))

(***************************************************************************)
(* Page tables.  Addresses are scaled: a page is 2^PageBits bytes, an L3   *)
(* table has 2^L3Bits entries, and the virtual address space is four times *)
(* what the two L3 tables cover, with the user image in its top half.      *)
(***************************************************************************)
PAGE_SIZE == 2 ^ PageBits

L3Entries == 2 ^ L3Bits

\* usize::MAX + 1.
VaSpace == 4 * L3Entries * PAGE_SIZE

USER_IMG_BASE == VaSpace - 2 * L3Entries * PAGE_SIZE

USER_STACK_BASE == VaSpace - PAGE_SIZE

\* RawL3Entry::new(0).
InvalidEntry == [valid |-> FALSE, addr |-> 0]

\* The valid L3 entry UserPageTable::alloc builds: set_masked keeps the
\* address bits above the page offset.
PageEntry(ptr) == [valid |-> TRUE, addr |-> (ptr \div PAGE_SIZE) * PAGE_SIZE]

\* PageTable::new: the first two L2 entries point at the two L3 tables; an
\* L2 address is kept as its distance from l3[0].
PageTable_new ==
    [l2 |-> [i \in 0 .. 1 |-> [valid |-> TRUE, addr |-> i * PAGE_SIZE]],
     l3 |-> [i \in 0 .. 1 |-> [j \in 0 .. L3Entries - 1 |-> InvalidEntry]]]

\* No page table: before UserPageTable::new and after drop.
NoTable == [l2 |-> <<>>, l3 |-> <<>>]

\* locate that takes every address for the first L3 table.
locate_l2zero(va) ==
    [l2 |-> 0,
     l3 |-> (va \div PAGE_SIZE) % L3Entries]

\* PageTable::locate: the bit above the L3 index and the L3 index bits.
locate(va) ==
    [l2 |-> (va \div (L3Entries * PAGE_SIZE)) % 2,
     l3 |-> (va \div PAGE_SIZE) % L3Entries]

\* PageTable::is_valid.
is_valid(t, va) ==
    LET loc == locate(va)
        l2_entry == t.l2[loc.l2]
    IN  IF ~l2_entry.valid THEN FALSE
        ELSE LET l3_index == l2_entry.addr \div PAGE_SIZE
             IN  t.l3[l3_index][loc.l3].valid

\* PageTable::set_entry.
set_entry(t, va, entry) ==
    LET loc == locate(va)
        l3_index == t.l2[loc.l2].addr \div PAGE_SIZE
    IN  [t EXCEPT !.l3[l3_index][loc.l3] = entry]

\* The messages of the three panics of UserPageTable::alloc.
MsgInvalidVa == "invalid virtual address"

MsgAllocated == "already allocated"

MsgNoPage == "could not allocate page"

\* UserPageTable::alloc that takes the page from the allocator before it
\* looks at the table.
UserPageTable_alloc_first(t, b, va) ==
    LET r == alloc(b, PAGE_SIZE, PAGE_SIZE)
    IN  IF va < USER_IMG_BASE
        THEN [panic |-> TRUE, pt |-> t, bins |-> r.bins, ptr |-> NULL,
              msg |-> MsgInvalidVa]
        ELSE IF is_valid(t, va)
        THEN [panic |-> TRUE, pt |-> t, bins |-> r.bins, ptr |-> NULL,
              msg |-> MsgAllocated]
        ELSE IF r.ptr = NULL
        THEN [panic |-> TRUE, pt |-> t, bins |-> b, ptr |-> NULL,
              msg |-> MsgNoPage]
        ELSE [panic |-> FALSE,
              pt |-> set_entry(t, va, PageEntry(r.ptr)),
              bins |-> r.bins,
              ptr |-> r.ptr,
              msg |-> ""]

\* UserPageTable::alloc on table t with the allocator lists b; msg is the
\* message of the panic.
UserPageTable_alloc(t, b, va) ==
    IF va < USER_IMG_BASE
    THEN [panic |-> TRUE, pt |-> t, bins |-> b, ptr |-> NULL,
          msg |-> MsgInvalidVa]
    ELSE IF is_valid(t, va)
    THEN [panic |-> TRUE, pt |-> t, bins |-> b, ptr |-> NULL,
          msg |-> MsgAllocated]
    ELSE LET r == alloc(b, PAGE_SIZE, PAGE_SIZE)
         IN  IF r.ptr = NULL
             THEN [panic |-> TRUE, pt |-> t, bins |-> b, ptr |-> NULL,
                   msg |-> MsgNoPage]
             ELSE [panic |-> FALSE,
                   pt |-> set_entry(t, va, PageEntry(r.ptr)),
                   bins |-> r.bins,
                   ptr |-> r.ptr,
                   msg |-> ""]

\* IntoIterator for PageTable: the entries of l3[0], then those of l3[1].
Entries(t) ==
    [k \in 1 .. 2 * L3Entries |->
        t.l3[(k - 1) \div L3Entries][(k - 1) % L3Entries]]

\* The physical pages the valid entries of a table refer to.
MappedPages(t) ==
    IF t = NoTable THEN {}
    ELSE {Entries(t)[k].addr : k \in {n \in 1 .. 2 * L3Entries : Entries(t)[n].valid}}

\* Page::layout().
Page_layout == [size |-> PAGE_SIZE, align |-> PAGE_SIZE]

\* The loop of Drop for UserPageTable from entry k on: r holds the
\* allocator lists and the calls of dealloc made so far.  The test of the
\* domain of the lists is always false; it has the model checker evaluate
\* the lists before the next dealloc instead of nesting one evaluation in
\* the other.
RECURSIVE drop_from(_, _, _)
drop_from(r, es, k) ==
    IF k > Len(es) \/ DOMAIN r.bins # Bins THEN r
    ELSE IF es[k].valid
    THEN drop_from([bins |-> dealloc(r.bins, es[k].addr, Page_layout.size,
                                     Page_layout.align),
                    calls |-> Append(r.calls,
                                     [ptr |-> es[k].addr,
                                      size |-> Page_layout.size,
                                      align |-> Page_layout.align])],
                   es, k + 1)
    ELSE drop_from(r, es, k + 1)

\* Drop that walks the entries of the table twice.
Drop_twice(t, b) ==
    drop_from([bins |-> b, calls |-> <<>>], Entries(t) \o Entries(t), 1)

\* Drop for UserPageTable: the allocator lists afterwards and the calls of
\* dealloc in the order they were made.
Drop(t, b) == drop_from([bins |-> b, calls |-> <<>>], Entries(t), 1)

\* UserPageTable_drop that walks the first L3 table only.
UserPageTable_drop_first(t, b) ==
    drop_from([bins |-> b, calls |-> <<>>],
              SubSeq(Entries(t), 1, L3Entries), 1).bins

\* Drop for UserPageTable: the allocator lists afterwards.
UserPageTable_drop(t, b) == Drop(t, b).bins

(***************************************************************************)
(* Processes and the scheduler.                                            *)
(***************************************************************************)
NONE == -1

Ready == [kind |-> "Ready", start |-> 0, end |-> 0]

Running == [kind |-> "Running", start |-> 0, end |-> 0]

Dead == [kind |-> "Dead", start |-> 0, end |-> 0]

\* State::Waiting holding the closure sys_sleep builds: it owns start_time
\* and end_time.
Waiting(start_time, end_time) ==
    [kind |-> "Waiting", start |-> start_time, end |-> end_time]

\* TrapFrame::default().
DefaultFrame == [tpidr |-> 0, x0 |-> 0, x1 |-> 0, x7 |-> 0]

\* Process::new: the default trap frame, state Ready and an empty
\* UserPageTable; pid records what add returns for the process.
NewProcess ==
    [context |-> DefaultFrame, state |-> Ready, pid |-> NONE,
     vmap |-> PageTable_new]

\* The system call numbers of kernel_api.
NR_SLEEP == 1

NR_TIME == 2

NR_EXIT == 3

NR_WRITE == 4

NR_GETPID == 5

\* sys_time that returns the whole seconds only.
sys_time_secs(frame, t) ==
    [frame EXCEPT !.x0 = t \div 1000,
                  !.x1 = 0,
                  !.x7 = 1]

\* sys_time at time t, Duration::as_secs and subsec_nanos of t milliseconds.
sys_time(frame, t) ==
    [frame EXCEPT !.x0 = t \div 1000,
                  !.x1 = (t % 1000) * 1000000,
                  !.x7 = 1]

\* sys_write: the byte goes to the console.
sys_write(frame) == [frame EXCEPT !.x7 = 1]

\* sys_getpid with the two registers of its assignment exchanged.
sys_getpid_swapped(frame) == [frame EXCEPT !.tpidr = frame.x0, !.x7 = 1]

\* sys_getpid.
sys_getpid(frame) == [frame EXCEPT !.x0 = frame.tpidr, !.x7 = 1]

\* handle_syscall for the calls that return to the caller: the trap frame
\* it leaves.  An unrecognized number is printed and nothing else.
handle_syscall(num, frame, t) ==
    IF num = NR_GETPID THEN sys_getpid(frame)
    ELSE IF num = NR_TIME THEN sys_time(frame, t)
    ELSE IF num = NR_WRITE THEN sys_write(frame)
    ELSE frame

\* The loop of do_load: one page for each PAGE_SIZE of the program, from
\* USER_IMG_BASE upwards; r is the outcome so far.
RECURSIVE load_code(_, _, _)
load_code(r, k, ncode) ==
    IF k >= ncode \/ r.panic THEN r
    ELSE load_code(UserPageTable_alloc(r.pt, r.bins, USER_IMG_BASE + k * PAGE_SIZE),
                   k + 1, ncode)

\* Process::load of a program of ncode pages with the allocator lists b: a
\* new process, one page for its stack, then the pages of the program.
do_load(b, ncode) ==
    LET p == NewProcess
        stack == UserPageTable_alloc(p.vmap, b, USER_STACK_BASE)
        r == load_code(stack, 0, ncode)
    IN  [panic |-> r.panic, p |-> [p EXCEPT !.vmap = r.pt], bins |-> r.bins]

\* Process::do_load up to the `?` that returns an error: with fail = 0
\* open_file fails, after the page of the stack; with fail = k >= 1 the read
\* into the k-th page of the program fails, after k pages of program.
do_load_part(b, fail) ==
    load_code(UserPageTable_alloc(NewProcess.vmap, b, USER_STACK_BASE), 0, fail)

\* The process of a do_load that returns an error is forgotten, not dropped.
drop_on_error_forget(t, b) == b

\* The `?` of do_load returns the error and the process p goes out of scope:
\* its UserPageTable is dropped.
drop_on_error(t, b) == UserPageTable_drop(t, b)

\* VecDeque::remove(i), positions counted from 1.
remove(q, i) == SubSeq(q, 1, i - 1) \o SubSeq(q, i + 1, Len(q))

\* The predicate of sys_sleep comparing the time with start_time.
has_waited_from_start(p, t) ==
    IF t >= p.state.start
    THEN [fired |-> TRUE,
          p |-> [p EXCEPT !.context.x0 = t - p.state.start,
                          !.context.x7 = 1]]
    ELSE [fired |-> FALSE, p |-> p]

\* The predicate of sys_sleep that answers without writing the results.
has_waited_no_result(p, t) ==
    IF t >= p.state.end
    THEN [fired |-> TRUE, p |-> p]
    ELSE [fired |-> FALSE, p |-> p]

\* The closure has_waited_long_enough of sys_sleep applied to p at time t.
has_waited_long_enough(p, t) ==
    IF t >= p.state.end
    THEN [fired |-> TRUE,
          p |-> [p EXCEPT !.context.x0 = t - p.state.start,
                          !.context.x7 = 1]]
    ELSE [fired |-> FALSE, p |-> p]

\* is_ready that answers true for a Waiting process without asking its
\* predicate.
is_ready_eager(p, t) ==
    IF p.state.kind = "Ready" THEN [ready |-> TRUE, p |-> p]
    ELSE IF p.state.kind = "Waiting"
    THEN [ready |-> TRUE, p |-> [p EXCEPT !.state = Ready]]
    ELSE [ready |-> FALSE, p |-> [p EXCEPT !.state = Ready]]

\* Process::is_ready: the answer and the process as the call leaves it.
is_ready(p, t) ==
    IF p.state.kind = "Ready" THEN [ready |-> TRUE, p |-> p]
    ELSE IF p.state.kind = "Waiting"
    THEN LET r == has_waited_long_enough(p, t)
         IN  IF r.fired THEN [ready |-> TRUE, p |-> [r.p EXCEPT !.state = Ready]]
             ELSE [ready |-> FALSE, p |-> [r.p EXCEPT !.state = p.state]]
    ELSE [ready |-> FALSE, p |-> [p EXCEPT !.state = Ready]]

\* add that hands out the number of queued processes as the PID.
add_reuse(q, last, process) ==
    LET new_pid == IF Len(q) > IdMax THEN NONE ELSE Len(q)
    IN  IF new_pid # NONE
        THEN [ret |-> new_pid,
              q |-> Append(q, [process EXCEPT !.context.tpidr = new_pid,
                                              !.pid = new_pid]),
              last |-> new_pid]
        ELSE [ret |-> NONE, q |-> q, last |-> last]

\* add whose PID wraps round to 0 after the largest value.
add_wrap(q, last, process) ==
    LET new_pid == IF last # NONE THEN (last + 1) % (IdMax + 1) ELSE 0
    IN  IF new_pid # NONE
        THEN [ret |-> new_pid,
              q |-> Append(q, [process EXCEPT !.context.tpidr = new_pid,
                                              !.pid = new_pid]),
              last |-> new_pid]
        ELSE [ret |-> NONE, q |-> q, last |-> last]

\* Scheduler::add.
add(q, last, process) ==
    LET new_pid == IF last # NONE
                   THEN (IF last + 1 > IdMax THEN NONE ELSE last + 1)
                   ELSE 0
    IN  IF new_pid # NONE
        THEN [ret |-> new_pid,
              q |-> Append(q, [process EXCEPT !.context.tpidr = new_pid,
                                              !.pid = new_pid]),
              last |-> new_pid]
        ELSE [ret |-> NONE, q |-> q, last |-> last]

\* The first position whose saved tpidr is that of the frame and whose state
\* is Running; 0 if there is none.
FindRunning(q, frame) ==
    LET hits == {i \in 1 .. Len(q) :
                    q[i].context.tpidr = frame.tpidr
                    /\ q[i].state.kind = "Running"}
    IN  IF hits = {} THEN 0 ELSE CHOOSE i \in hits : \A j \in hits : i <= j

\* schedule_out that leaves the state of the process as it was.
schedule_out_keepstate(q, new_state, frame) ==
    LET i == FindRunning(q, frame)
    IN  IF i = 0 THEN [found |-> FALSE, q |-> q]
        ELSE LET p == [q[i] EXCEPT !.context = frame]
             IN  [found |-> TRUE,
                  q |-> IF new_state.kind = "Dead" THEN remove(q, i)
                        ELSE Append(remove(q, i), p)]

\* schedule_out that takes the first Running process whatever its tpidr.
schedule_out_anyrunning(q, new_state, frame) ==
    LET hits == {i \in 1 .. Len(q) : q[i].state.kind = "Running"}
        i == IF hits = {} THEN 0 ELSE CHOOSE i \in hits : \A j \in hits : i <= j
    IN  IF i = 0 THEN [found |-> FALSE, q |-> q]
        ELSE LET p == [q[i] EXCEPT !.state = new_state, !.context = frame]
             IN  [found |-> TRUE,
                  q |-> IF new_state.kind = "Dead" THEN remove(q, i)
                        ELSE Append(remove(q, i), p)]

\* schedule_out that puts the process back at the front of the queue.
schedule_out_front(q, new_state, frame) ==
    LET i == FindRunning(q, frame)
    IN  IF i = 0 THEN [found |-> FALSE, q |-> q]
        ELSE LET p == [q[i] EXCEPT !.state = new_state, !.context = frame]
             IN  [found |-> TRUE,
                  q |-> IF new_state.kind = "Dead" THEN remove(q, i)
                        ELSE <<p>> \o remove(q, i)]

\* schedule_out that leaves the saved context of the process as it was.
schedule_out_stale(q, new_state, frame) ==
    LET i == FindRunning(q, frame)
    IN  IF i = 0 THEN [found |-> FALSE, q |-> q]
        ELSE LET p == [q[i] EXCEPT !.state = new_state]
             IN  [found |-> TRUE,
                  q |-> IF new_state.kind = "Dead" THEN remove(q, i)
                        ELSE Append(remove(q, i), p)]

\* Scheduler::schedule_out.
schedule_out(q, new_state, frame) ==
    LET i == FindRunning(q, frame)
    IN  IF i = 0 THEN [found |-> FALSE, q |-> q]
        ELSE LET p == [q[i] EXCEPT !.state = new_state, !.context = frame]
             IN  [found |-> TRUE,
                  q |-> IF new_state.kind = "Dead" THEN remove(q, i)
                        ELSE Append(remove(q, i), p)]

\* The scan that settles on the last process that answers true.
scan_ready_last(q, i, t) ==
    LET idx == {j \in i .. Len(q) : is_ready(q[j], t).ready}
        last == CHOOSE j \in idx : \A n \in idx : n <= j
    IN  IF idx = {}
        THEN [ind |-> 0, q |-> [j \in 1 .. Len(q) |-> is_ready(q[j], t).p]]
        ELSE [ind |-> last, q |-> [q EXCEPT ![last] = is_ready(q[last], t).p]]

\* The scan of switch_to from position i: is_ready is called on every entry
\* up to and including the first that answers true.
RECURSIVE scan_ready(_, _, _)
scan_ready(q, i, t) ==
    IF i > Len(q) THEN [ind |-> 0, q |-> q]
    ELSE LET r == is_ready(q[i], t)
             q2 == [q EXCEPT ![i] = r.p]
         IN  IF r.ready THEN [ind |-> i, q |-> q2]
             ELSE scan_ready(q2, i + 1, t)

\* switch_to that marks the process Running where it stands.
switch_to_inplace(q, frame, t) ==
    LET s == scan_ready(q, 1, t)
    IN  IF s.ind = 0 THEN [ret |-> NONE, q |-> s.q, tf |-> frame]
        ELSE [ret |-> s.q[s.ind].context.tpidr,
              q |-> [s.q EXCEPT ![s.ind].state = Running],
              tf |-> s.q[s.ind].context]

\* switch_to that rotates the entries it skipped to the back of the queue.
switch_to_rotate(q, frame, t) ==
    LET s == scan_ready(q, 1, t)
    IN  IF s.ind = 0 THEN [ret |-> NONE, q |-> s.q, tf |-> frame]
        ELSE LET p == s.q[s.ind]
             IN  [ret |-> p.context.tpidr,
                  q |-> <<[p EXCEPT !.state = Running]>>
                        \o SubSeq(s.q, s.ind + 1, Len(s.q))
                        \o SubSeq(s.q, 1, s.ind - 1),
                  tf |-> p.context]

\* Scheduler::switch_to.
switch_to(q, frame, t) ==
    LET s == scan_ready(q, 1, t)
    IN  IF s.ind = 0 THEN [ret |-> NONE, q |-> s.q, tf |-> frame]
        ELSE LET p == s.q[s.ind]
             IN  [ret |-> p.context.tpidr,
                  q |-> <<[p EXCEPT !.state = Running]>> \o remove(s.q, s.ind),
                  tf |-> p.context]

\* Scheduler::kill.
kill(q, frame, t) ==
    LET i == FindRunning(q, frame)
    IN  IF i = 0 THEN [ret |-> NONE, q |-> q, tf |-> frame]
        ELSE LET s == switch_to(remove(q, i), frame, t)
             IN  [ret |-> q[i].context.tpidr, q |-> s.q, tf |-> s.tf]

(***************************************************************************)
(* Scheduler state machine.                                                *)
(***************************************************************************)
SchedIdle ==
    /\ processes = <<>>
    /\ last_id = NONE
    /\ tf = DefaultFrame
    /\ now = 0
    /\ pc = "boot"
    /\ sop = "new"
    /\ sret = NONE
    /\ issued = <<>>

AllocIdle ==
    /\ heap = [start |-> 0, end |-> 0]
    /\ bins = EmptyBins
    /\ live = {}
    /\ aop = "new"
    /\ aret = NULL
    /\ areq = [size |-> 0, align |-> 0]
    /\ panicked = FALSE

\* A user program that has not been loaded.
NoProgram == [step |-> "none", t1 |-> 0, d |-> 0, t2 |-> 0]

\* No Timer::read has been made.
NoRead == [at |-> "idle", lo |-> 0, prev |-> NONE, cur |-> NONE]

\* KernPageTable::new has not been called.
NoKern == [at |-> "none", addr |-> 0, ram_end |-> 0, io_base |-> 0, io_end |-> 0]

\* PageTable::locate has not been called.
NoLocate == [va |-> NONE, panic |-> FALSE, l2 |-> 0, l3 |-> 0]

GhostIdle ==
    /\ ticks = 0
    /\ ran = {}
    /\ compare = NONE
    /\ prog = [pid \in 0 .. IdMax |-> NoProgram]
    /\ lock = FALSE
    /\ pend = Ready
    /\ counter = 0
    /\ rd = NoRead
    /\ kern = NoKern
    /\ located = NoLocate

PtIdle ==
    /\ pt = NoTable
    /\ called = {}

Init == AllocIdle /\ SchedIdle /\ GhostIdle /\ PtIdle

\* GlobalScheduler::add, from kmain before start or from the kernel later.
Add ==
    /\ pc \in {"boot", "user"}
    /\ Len(processes) < MaxProcs
    /\ LET r == add(processes, last_id, NewProcess)
       IN  /\ processes' = r.q
           /\ last_id' = r.last
           /\ sret' = r.ret
           /\ issued' = IF r.ret = NONE THEN issued ELSE Append(issued, r.ret)
    /\ sop' = "add"
    /\ UNCHANGED <<tf, now, pc>>
    /\ UNCHANGED avars
    /\ UNCHANGED gvars

\* One pass of the loop of GlobalScheduler::switch_to: on None the CPU
\* waits for an interrupt and the loop goes round again.
Dispatch(q, frame, name) ==
    LET r == switch_to(q, frame, now)
    IN  /\ processes' = r.q
        /\ tf' = r.tf
        /\ sret' = r.ret
        /\ pc' = IF r.ret = NONE THEN "idle" ELSE "user"
        /\ sop' = name

\* GlobalScheduler::start: the first dispatch into a default trap frame.
Start ==
    /\ pc = "boot"
    /\ Dispatch(processes, DefaultFrame, "start")
    /\ UNCHANGED <<last_id, now, issued>>
    /\ UNCHANGED avars
    /\ UNCHANGED gvars

\* GlobalScheduler::switch: schedule_out, then the switch_to loop.
Switch(new_state, frame, name) ==
    Dispatch(schedule_out(processes, new_state, frame).q, frame, name)

\* The timer interrupt: GlobalScheduler::ticc.
Ticc ==
    /\ pc = "user"
    /\ Switch(Ready, tf, "tick")
    /\ UNCHANGED <<last_id, now, issued>>
    /\ UNCHANGED avars
    /\ UNCHANGED gvars

\* svc 1 with x0 = ms: handle_syscall and sys_sleep.
SysSleep(ms) ==
    /\ pc = "user"
    /\ LET frame == [tf EXCEPT !.x0 = ms]
       IN  Switch(Waiting(now, now + ms), frame, "sleep")
    /\ UNCHANGED <<last_id, now, issued>>
    /\ UNCHANGED avars
    /\ UNCHANGED gvars

\* svc 3: sys_exit.
SysExit ==
    /\ pc = "user"
    /\ Switch(Dead, tf, "exit")
    /\ UNCHANGED <<last_id, now, issued>>
    /\ UNCHANGED avars
    /\ UNCHANGED gvars

\* GlobalScheduler::kill on the current trap frame.
Kill ==
    /\ pc = "user"
    /\ LET r == kill(processes, tf, now)
       IN  /\ processes' = r.q
           /\ tf' = r.tf
           /\ sret' = r.ret
    /\ sop' = "kill"
    /\ UNCHANGED <<last_id, now, pc, issued>>
    /\ UNCHANGED avars
    /\ UNCHANGED gvars

\* The loop of GlobalScheduler::switch_to after wfi returns.
Retry ==
    /\ pc = "idle"
    /\ Dispatch(processes, tf, "retry")
    /\ UNCHANGED <<last_id, now, issued>>
    /\ UNCHANGED avars
    /\ UNCHANGED gvars

\* The free-running system timer advances.
Advance ==
    /\ now < MaxTime
    /\ now' = now + 1
    /\ sop' = "advance"
    /\ UNCHANGED <<processes, last_id, tf, pc, sret, issued>>
    /\ UNCHANGED avars
    /\ UNCHANGED gvars

\* The running user program writes TPIDR_EL0, which EL0 may do.
UserWriteTpidr(v) ==
    /\ pc = "user"
    /\ tf' = [tf EXCEPT !.tpidr = v]
    /\ sop' = "user"
    /\ UNCHANGED <<processes, last_id, now, pc, sret, issued>>
    /\ UNCHANGED avars
    /\ UNCHANGED gvars

\* The values a user program is given to write: the PID of each queued
\* process and one more.
TpidrValues == {processes[i].context.tpidr : i \in 1 .. Len(processes)} \cup {IdMax}

Next ==
    \/ Add
    \/ Start
    \/ Ticc
    \/ \E ms \in 0 .. MaxSleep : SysSleep(ms)
    \/ SysExit
    \/ Kill
    \/ Retry
    \/ Advance

Spec == Init /\ [][Next]_vars

\* The same kernel under a user program that also writes TPIDR_EL0.
TamperNext ==
    \/ Add
    \/ Start
    \/ Ticc
    \/ \E ms \in 1 .. MaxSleep : SysSleep(ms)
    \/ SysExit
    \/ Kill
    \/ Retry
    \/ Advance
    \/ \E v \in TpidrValues : UserWriteTpidr(v)

TamperSpec == Init /\ [][TamperNext]_vars

(***************************************************************************)
(* System calls and faults: the scheduler under every exception a user     *)
(* program can raise.                                                      *)
(***************************************************************************)
\* svc 2: sys_time.
SysTime ==
    /\ pc = "user"
    /\ tf' = handle_syscall(NR_TIME, tf, now)
    /\ sop' = "time"
    /\ UNCHANGED <<processes, last_id, now, pc, sret, issued>>
    /\ UNCHANGED avars
    /\ UNCHANGED gvars

\* svc 4: sys_write.
SysWrite ==
    /\ pc = "user"
    /\ tf' = handle_syscall(NR_WRITE, tf, now)
    /\ sop' = "write"
    /\ UNCHANGED <<processes, last_id, now, pc, sret, issued>>
    /\ UNCHANGED avars
    /\ UNCHANGED gvars

\* svc 5: sys_getpid.
SysGetpid ==
    /\ pc = "user"
    /\ tf' = handle_syscall(NR_GETPID, tf, now)
    /\ sop' = "getpid"
    /\ UNCHANGED <<processes, last_id, now, pc, sret, issued>>
    /\ UNCHANGED avars
    /\ UNCHANGED gvars

\* The svc numbers tried that name no system call.
UnknownNumbers == {0, 6}

\* svc with a number that names no system call.
SysUnknown(num) ==
    /\ pc = "user"
    /\ tf' = handle_syscall(num, tf, now)
    /\ sop' = "unknown"
    /\ UNCHANGED <<processes, last_id, now, pc, sret, issued>>
    /\ UNCHANGED avars
    /\ UNCHANGED gvars

\* handle_exception for a synchronous exception whose syndrome is neither
\* Brk nor Svc: it prints the syndrome and loops for ever.
Fault ==
    /\ pc = "user"
    /\ pc' = "hung"
    /\ sop' = "fault"
    /\ UNCHANGED <<processes, last_id, tf, now, sret, issued>>
    /\ UNCHANGED avars
    /\ UNCHANGED gvars

SysNext ==
    \/ Add
    \/ Start
    \/ Ticc
    \/ \E ms \in 0 .. MaxSleep : SysSleep(ms)
    \/ SysExit
    \/ Retry
    \/ Advance
    \/ SysTime
    \/ SysWrite
    \/ SysGetpid
    \/ \E num \in UnknownNumbers : SysUnknown(num)
    \/ Fault

SysSpec == Init /\ [][SysNext]_vars

(***************************************************************************)
(* Timed runs: timer 1 matches TICK after it was armed, the interrupt is   *)
(* taken as soon as the CPU is in user mode, wfi returns once the match is *)
(* pending, and a user program runs its system calls without delay.  A     *)
(* program either computes for ever ("spin") or reads the time, sleeps and *)
(* reads the time again.                                                   *)
(***************************************************************************)
\* The time a program computes from the x0 and x1 that sys_time returned,
\* in milliseconds.
Millis(frame) == frame.x0 * 1000 + frame.x1 \div 1000000

\* Process::load and GlobalScheduler::add from kmain, before start.
TimedAdd(kind) ==
    /\ pc = "boot"
    /\ Len(processes) < TimedProcs
    /\ LET r == add(processes, last_id, NewProcess)
       IN  /\ processes' = r.q
           /\ last_id' = r.last
           /\ sret' = r.ret
           /\ issued' = IF r.ret = NONE THEN issued ELSE Append(issued, r.ret)
           /\ prog' = IF r.ret = NONE THEN prog
                      ELSE [prog EXCEPT ![r.ret].step = kind]
    /\ sop' = "add"
    /\ UNCHANGED <<tf, now, pc, ticks, ran, compare, pt, called>>
    /\ UNCHANGED kvars
    /\ UNCHANGED avars

\* GlobalScheduler::start: the first dispatch, then tick_in(TICK).
TimedStart ==
    /\ pc = "boot"
    /\ Dispatch(processes, DefaultFrame, "start")
    /\ compare' = IF sret' = NONE THEN NONE ELSE now + TICK
    /\ UNCHANGED <<last_id, now, issued, ticks, ran, prog, pt, called>>
    /\ UNCHANGED kvars
    /\ UNCHANGED avars

\* The match of timer 1 is pending and the CPU is in user mode: ticc.
TimedTicc ==
    /\ pc = "user"
    /\ compare # NONE /\ now >= compare
    /\ compare' = now + TICK
    /\ Switch(Ready, tf, "tick")
    /\ UNCHANGED <<last_id, now, issued, ticks, ran, prog, pt, called>>
    /\ UNCHANGED kvars
    /\ UNCHANGED avars

\* The running program reads the time: svc 2.
TimedTime ==
    /\ pc = "user"
    /\ now < compare
    /\ prog[tf.tpidr].step \in {"t1", "t2"}
    /\ tf' = handle_syscall(NR_TIME, tf, now)
    /\ prog' = IF prog[tf.tpidr].step = "t1"
               THEN [prog EXCEPT ![tf.tpidr].step = "sleep",
                                 ![tf.tpidr].t1 = Millis(tf')]
               ELSE [prog EXCEPT ![tf.tpidr].step = "done",
                                 ![tf.tpidr].t2 = Millis(tf')]
    /\ sop' = "time"
    /\ UNCHANGED <<processes, last_id, now, pc, sret, issued,
                   ticks, ran, compare, pt, called>>
    /\ UNCHANGED kvars
    /\ UNCHANGED avars

\* The running program sleeps for d milliseconds: svc 1.
TimedSleep(d) ==
    /\ pc = "user"
    /\ now < compare
    /\ prog[tf.tpidr].step = "sleep"
    /\ LET frame == [tf EXCEPT !.x0 = d]
       IN  Switch(Waiting(now, now + d), frame, "sleep")
    /\ prog' = [prog EXCEPT ![tf.tpidr].step = "t2", ![tf.tpidr].d = d]
    /\ UNCHANGED <<last_id, now, issued, ticks, ran, compare, pt, called>>
    /\ UNCHANGED kvars
    /\ UNCHANGED avars

\* A millisecond passes.  In user mode that takes a program that computes
\* and no pending interrupt; in the loop of GlobalScheduler::switch_to, wfi
\* returns once the match is pending and the loop calls switch_to again.
TimedAdvance ==
    /\ now < MaxTTime
    /\ pc \in {"user", "idle"}
    /\ pc = "user" =>
          /\ now < compare
          /\ prog[tf.tpidr].step \in {"spin", "done"}
    /\ now' = now + 1
    /\ IF pc = "idle" /\ compare # NONE /\ now' >= compare
       THEN LET r == switch_to(processes, tf, now')
            IN  /\ processes' = r.q
                /\ tf' = r.tf
                /\ sret' = r.ret
                /\ pc' = IF r.ret = NONE THEN "idle" ELSE "user"
                /\ sop' = "retry"
       ELSE /\ sop' = "advance"
            /\ UNCHANGED <<processes, tf, sret, pc>>
    /\ UNCHANGED <<last_id, issued, ticks, ran, compare, prog, pt, called>>
    /\ UNCHANGED kvars
    /\ UNCHANGED avars

TimedNext ==
    \/ \E kind \in {"spin", "t1"} : TimedAdd(kind)
    \/ TimedStart
    \/ TimedTicc
    \/ TimedTime
    \/ \E d \in 1 .. MaxSleep : TimedSleep(d)
    \/ TimedAdvance

TimedSpec == Init /\ [][TimedNext]_vars

(***************************************************************************)
(* Round robin: processes are added, the scheduler is started and only     *)
(* timer interrupts follow.                                                *)
(***************************************************************************)
\* GlobalScheduler::add from kmain, before start.
RRAdd ==
    /\ pc = "boot"
    /\ Len(processes) < MaxRR
    /\ LET r == add(processes, last_id, NewProcess)
       IN  /\ processes' = r.q
           /\ last_id' = r.last
           /\ sret' = r.ret
           /\ issued' = IF r.ret = NONE THEN issued ELSE Append(issued, r.ret)
    /\ sop' = "add"
    /\ UNCHANGED <<tf, now, pc>>
    /\ UNCHANGED avars
    /\ UNCHANGED gvars

\* GlobalScheduler::start.
RRStart ==
    /\ pc = "boot"
    /\ Dispatch(processes, DefaultFrame, "start")
    /\ ran' = IF sret' = NONE THEN ran ELSE ran \cup {sret'}
    /\ UNCHANGED <<last_id, now, issued, ticks, compare, prog, pt, called>>
    /\ UNCHANGED kvars
    /\ UNCHANGED avars

\* GlobalScheduler::ticc.
RRTicc ==
    /\ pc = "user"
    /\ ticks < MaxTicks
    /\ Switch(Ready, tf, "tick")
    /\ ticks' = ticks + 1
    /\ ran' = IF sret' = NONE THEN ran ELSE ran \cup {sret'}
    /\ UNCHANGED <<last_id, now, issued, compare, prog, pt, called>>
    /\ UNCHANGED kvars
    /\ UNCHANGED avars

RRNext ==
    \/ RRAdd
    \/ RRStart
    \/ RRTicc

RRSpec == Init /\ [][RRNext]_vars

(***************************************************************************)
(* A UserPageTable on its own over an allocator with PtPages pages.        *)
(***************************************************************************)
\* The page-aligned virtual addresses.
PageVAs == {k * PAGE_SIZE : k \in 0 .. 4 * L3Entries - 1}

PtInit ==
    /\ \E s \in {PAGE_SIZE, PAGE_SIZE + 8} :
          heap = [start |-> s, end |-> s + PtPages * PAGE_SIZE]
    /\ bins = absorb_memory(EmptyBins, heap.start, heap.end)
    /\ live = {}
    /\ aop = "new"
    /\ aret = NULL
    /\ areq = [size |-> 0, align |-> 0]
    /\ panicked = FALSE
    /\ pt = PageTable_new
    /\ called = {}
    /\ SchedIdle
    /\ GhostIdle

\* UserPageTable::alloc(va, perm); a panic stops the kernel.
PtAlloc(va) ==
    /\ ~panicked
    /\ pt # NoTable
    /\ \E r \in {UserPageTable_alloc(pt, bins, va)} :
           /\ panicked' = r.panic
           /\ pt' = r.pt
           /\ bins' = r.bins
           /\ aret' = r.ptr
           /\ live' = IF r.panic THEN live
                      ELSE live \cup {[ptr |-> r.ptr, size |-> PAGE_SIZE,
                                       align |-> PAGE_SIZE]}
           /\ called' = IF r.panic THEN called ELSE called \cup {va}
           /\ aop' = IF r.panic THEN r.msg ELSE "pt_alloc"
    /\ areq' = [size |-> PAGE_SIZE, align |-> PAGE_SIZE]
    /\ UNCHANGED heap
    /\ UNCHANGED svars
    /\ UNCHANGED <<ticks, ran, compare, prog>>
    /\ UNCHANGED kvars

\* The UserPageTable is dropped.
PtDrop ==
    /\ ~panicked
    /\ pt # NoTable
    /\ bins' = UserPageTable_drop(pt, bins)
    /\ live' = {a \in live : a.ptr \notin MappedPages(pt)}
    /\ pt' = NoTable
    /\ aop' = "pt_drop"
    /\ aret' = NULL
    /\ areq' = [size |-> PAGE_SIZE, align |-> PAGE_SIZE]
    /\ UNCHANGED <<heap, panicked, called>>
    /\ UNCHANGED svars
    /\ UNCHANGED <<ticks, ran, compare, prog>>
    /\ UNCHANGED kvars

\* UserPageTable::new.
PtNew ==
    /\ ~panicked
    /\ pt = NoTable
    /\ pt' = PageTable_new
    /\ called' = {}
    /\ aop' = "pt_new"
    /\ UNCHANGED <<bins, live, heap, aret, areq, panicked>>
    /\ UNCHANGED svars
    /\ UNCHANGED <<ticks, ran, compare, prog>>
    /\ UNCHANGED kvars

PtNext ==
    \/ \E va \in PageVAs : PtAlloc(va)
    \/ PtDrop
    \/ PtNew

PtSpec == PtInit /\ [][PtNext]_vars

(***************************************************************************)
(* Processes with user pages: programs are loaded into pages of the        *)
(* allocator, run under the timer and exit.  Only the user pages are taken *)
(* from the allocator of the model.                                        *)
(***************************************************************************)
ExitInit ==
    /\ \E s \in {PAGE_SIZE, PAGE_SIZE + 8} :
          heap = [start |-> s, end |-> s + ExitPages * PAGE_SIZE]
    /\ bins = absorb_memory(EmptyBins, heap.start, heap.end)
    /\ live = {}
    /\ aop = "new"
    /\ aret = NULL
    /\ areq = [size |-> 0, align |-> 0]
    /\ panicked = FALSE
    /\ SchedIdle
    /\ GhostIdle
    /\ PtIdle

\* The allocations behind a set of pages.
PageAllocs(pages) ==
    {[ptr |-> a, size |-> PAGE_SIZE, align |-> PAGE_SIZE] : a \in pages}

\* Process::load and GlobalScheduler::add.  A panic of UserPageTable::alloc
\* stops the kernel; a process add turns away is dropped.
ExitLoad(ncode) ==
    /\ pc \in {"boot", "user"}
    /\ Len(processes) < MaxProcs
    /\ \E l \in {do_load(bins, ncode)} :
       \E r \in {add(processes, last_id, l.p)} :
           IF l.panic
           THEN /\ panicked' = TRUE
                /\ pc' = "hung"
                /\ UNCHANGED <<bins, live, processes, last_id, sret, issued>>
           ELSE /\ processes' = r.q
                /\ last_id' = r.last
                /\ sret' = r.ret
                /\ issued' = IF r.ret = NONE THEN issued
                             ELSE Append(issued, r.ret)
                /\ bins' = IF r.ret = NONE
                           THEN UserPageTable_drop(l.p.vmap, l.bins)
                           ELSE l.bins
                /\ live' = IF r.ret = NONE THEN live
                           ELSE live \cup PageAllocs(MappedPages(l.p.vmap))
                /\ UNCHANGED <<panicked, pc>>
    /\ sop' = "add"
    /\ aop' = "load"
    /\ UNCHANGED <<heap, aret, areq, tf, now>>
    /\ UNCHANGED gvars

\* svc 3: sys_exit.  schedule_out takes the process out of the queue and
\* drops it, and its UserPageTable with it.
ExitSysExit ==
    /\ pc = "user"
    /\ Switch(Dead, tf, "exit")
    /\ LET i == FindRunning(processes, tf)
       IN  IF i = 0 THEN UNCHANGED <<bins, live>>
           ELSE /\ bins' = UserPageTable_drop(processes[i].vmap, bins)
                /\ live' = live \ PageAllocs(MappedPages(processes[i].vmap))
    /\ aop' = "drop"
    /\ UNCHANGED <<heap, aret, areq, panicked>>
    /\ UNCHANGED <<last_id, now, issued>>
    /\ UNCHANGED gvars

ExitNext ==
    \/ \E ncode \in 1 .. MaxCode : ExitLoad(ncode)
    \/ Start
    \/ Ticc
    \/ ExitSysExit
    \/ Retry

ExitSpec == ExitInit /\ [][ExitNext]_vars

\* kmain goes on to start; timer 1 is armed again by every ticc, so a CPU
\* that stays in user mode takes the interrupt, and wfi returns.
ExitFairSpec == ExitSpec /\ WF_vars(Start) /\ WF_vars(Ticc) /\ WF_vars(Retry)

(***************************************************************************)
(* Loads that fail: the file of the program cannot be opened, or a read    *)
(* of it returns an error, between loads that succeed, dispatches and      *)
(* exits.  GlobalScheduler::initialize panics on the error load returns.   *)
(***************************************************************************)
\* Process::load up to the failure: the pages of the attempt are allocated.
\* A panic of UserPageTable::alloc stops the kernel.
LoadBegin(ncode, fail) ==
    /\ pc \in {"boot", "user"}
    /\ Len(processes) < MaxProcs
    /\ \E r \in {do_load_part(bins, fail)} :
           IF r.panic
           THEN /\ panicked' = TRUE
                /\ pc' = "hung"
                /\ aop' = r.msg
                /\ UNCHANGED <<bins, live, pt, called>>
           ELSE /\ bins' = r.bins
                /\ live' = live \cup PageAllocs(MappedPages(r.pt))
                /\ pt' = r.pt
                /\ called' = {USER_STACK_BASE}
                               \cup {USER_IMG_BASE + k * PAGE_SIZE : k \in 0 .. fail - 1}
                /\ pc' = "loading"
                /\ aop' = "load_part"
                /\ UNCHANGED panicked
    /\ sop' = "load"
    /\ UNCHANGED <<heap, aret, areq>>
    /\ UNCHANGED <<processes, last_id, tf, now, sret, issued>>
    /\ UNCHANGED <<ticks, ran, compare, prog>>
    /\ UNCHANGED kvars

\* The error leaves do_load and load; initialize panics on it.
LoadErr ==
    /\ pc = "loading"
    /\ bins' = drop_on_error(pt, bins)
    /\ live' = live \ PageAllocs(MappedPages(pt))
    /\ pt' = NoTable
    /\ pc' = "hung"
    /\ panicked' = TRUE
    /\ aop' = "load_err"
    /\ sop' = "load"
    /\ UNCHANGED <<heap, aret, areq, called>>
    /\ UNCHANGED <<processes, last_id, tf, now, sret, issued>>
    /\ UNCHANGED <<ticks, ran, compare, prog>>
    /\ UNCHANGED kvars

LoadNext ==
    \/ \E ncode \in 1 .. MaxCode : ExitLoad(ncode)
    \/ \E ncode \in 1 .. MaxCode : \E fail \in 0 .. ncode : LoadBegin(ncode, fail)
    \/ LoadErr
    \/ Start
    \/ Ticc
    \/ ExitSysExit
    \/ Retry

LoadSpec == ExitInit /\ [][LoadNext]_vars

(***************************************************************************)
(* The scheduler step by step: GlobalScheduler::switch takes the lock for  *)
(* schedule_out, releases it, and takes it again for every switch_to of    *)
(* its loop.  The handlers run with interrupts masked, so between their    *)
(* steps only the timer moves.                                             *)
(***************************************************************************)
\* 2^32: the values of the u32 that sys_sleep takes.
U32 == 2 ^ MsBits

\* The values of x0, a u64, a user program passes to sleep.
SleepArgs == 0 .. 2 * U32 - 1

\* `tf.x_registers[0] as u32` in handle_syscall.
as_u32(x) == x % U32

\* The state sys_sleep parks the caller in, called with ms at time t.
sys_sleep_state(ms, t) == Waiting(t, t + ms)

\* Mutex::lock returns when no guard of the mutex is alive.
Mutex_free(l) == ~l

\* critical that returns with the guard still alive.
critical_exit_held == TRUE

\* The lock when critical returns: the guard is dropped.
critical_exit == FALSE

\* The loop of GlobalScheduler::switch_to that returns after one pass.
loop_returns_once(rtn) == TRUE

\* `if let Some(id) = rtn { return id; }` in GlobalScheduler::switch_to.
loop_returns(rtn) == rtn # NONE

\* GlobalScheduler::add from GlobalScheduler::initialize, one critical
\* section.
StAdd ==
    /\ pc = "boot"
    /\ Mutex_free(lock)
    /\ Len(processes) < StepProcs
    /\ \E r \in {add(processes, last_id, NewProcess)} :
           /\ processes' = r.q
           /\ last_id' = r.last
           /\ sret' = r.ret
           /\ issued' = IF r.ret = NONE THEN issued ELSE Append(issued, r.ret)
    /\ sop' = "add"
    /\ lock' = critical_exit
    /\ UNCHANGED <<tf, now, pc, pend, counter, rd, kern, located>>
    /\ UNCHANGED <<ticks, ran, compare, prog, pt, called>>
    /\ UNCHANGED avars

\* GlobalScheduler::start calls switch_to with a default trap frame.
StStart ==
    /\ pc = "boot"
    /\ tf' = DefaultFrame
    /\ pc' = "to_lock"
    /\ sop' = "start"
    /\ UNCHANGED <<processes, last_id, now, sret, issued>>
    /\ UNCHANGED gvars
    /\ UNCHANGED avars

\* A trap from user mode that ends in GlobalScheduler::switch(new_state, tf).
Trap(new_state, frame, name) ==
    /\ pc = "user"
    /\ tf' = frame
    /\ pend' = new_state
    /\ pc' = "out_lock"
    /\ sop' = name
    /\ UNCHANGED <<processes, last_id, now, sret, issued>>
    /\ UNCHANGED <<ticks, ran, compare, prog, pt, called, lock, counter, rd, kern,
                   located>>
    /\ UNCHANGED avars

\* The timer interrupt: GlobalScheduler::ticc.
StTicc == Trap(Ready, tf, "tick")

\* svc 1 with the u64 x0 in register x0: handle_syscall and sys_sleep.
StSleep(x0) ==
    Trap(sys_sleep_state(as_u32(x0), now), [tf EXCEPT !.x0 = x0], "sleep")

\* svc 3: sys_exit.
StExit == Trap(Dead, tf, "exit")

\* self.0.lock() in critical: the lock is taken when it is free.
Lock ==
    /\ pc \in {"out_lock", "to_lock"}
    /\ Mutex_free(lock)
    /\ lock' = TRUE
    /\ pc' = IF pc = "out_lock" THEN "out" ELSE "to"
    /\ sop' = "lock"
    /\ UNCHANGED <<processes, last_id, tf, now, sret, issued>>
    /\ UNCHANGED <<ticks, ran, compare, prog, pt, called, pend, counter, rd, kern,
                   located>>
    /\ UNCHANGED avars

\* The closure of the first critical of switch: Scheduler::schedule_out.
\* sret is 1 for true and 0 for false.
ScheduleOut ==
    /\ pc = "out"
    /\ \E r \in {schedule_out(processes, pend, tf)} :
           /\ processes' = r.q
           /\ sret' = IF r.found THEN 1 ELSE 0
    /\ lock' = critical_exit
    /\ pc' = "to_lock"
    /\ sop' = "schedule_out"
    /\ UNCHANGED <<last_id, tf, now, issued>>
    /\ UNCHANGED <<ticks, ran, compare, prog, pt, called, pend, counter, rd, kern,
                   located>>
    /\ UNCHANGED avars

\* One pass of the loop of GlobalScheduler::switch_to: Scheduler::switch_to
\* in its critical, then return or wfi.
SwitchTo ==
    /\ pc = "to"
    /\ \E r \in {switch_to(processes, tf, now)} :
           /\ processes' = r.q
           /\ tf' = r.tf
           /\ sret' = r.ret
           /\ pc' = IF loop_returns(r.ret) THEN "user" ELSE "wfi"
    /\ lock' = critical_exit
    /\ sop' = "switch_to"
    /\ UNCHANGED <<last_id, now, issued>>
    /\ UNCHANGED <<ticks, ran, compare, prog, pt, called, pend, counter, rd, kern,
                   located>>
    /\ UNCHANGED avars

\* aarch64::wfi() returns and the loop goes round.
Wfi ==
    /\ pc = "wfi"
    /\ pc' = "to_lock"
    /\ sop' = "wfi"
    /\ UNCHANGED <<processes, last_id, tf, now, sret, issued>>
    /\ UNCHANGED gvars
    /\ UNCHANGED avars

\* The free-running system timer advances.
StAdvance ==
    /\ now < StepTime
    /\ now' = now + 1
    /\ sop' = "advance"
    /\ UNCHANGED <<processes, last_id, tf, pc, sret, issued>>
    /\ UNCHANGED gvars
    /\ UNCHANGED avars

\* The sleeps of a step-by-step run: none at all and one millisecond.
StepSleeps == {0, 1}

StepNext ==
    \/ StAdd
    \/ StStart
    \/ StTicc
    \/ \E x0 \in StepSleeps : StSleep(x0)
    \/ StExit
    \/ Lock
    \/ ScheduleOut
    \/ SwitchTo
    \/ Wfi
    \/ StAdvance

StepSpec == Init /\ [][StepNext]_vars

\* The same steps within one millisecond, under user programs that also
\* write TPIDR_EL0.
OutNext ==
    \/ StAdd
    \/ StStart
    \/ StTicc
    \/ StSleep(1)
    \/ StExit
    \/ Lock
    \/ ScheduleOut
    \/ SwitchTo
    \/ Wfi
    \/ \E v \in TpidrValues : UserWriteTpidr(v)

OutSpec == Init /\ [][OutNext]_vars

\* The same steps under user programs that pass every u64 to sleep.
WideNext ==
    \/ StAdd
    \/ StStart
    \/ \E x0 \in SleepArgs : StSleep(x0)
    \/ Lock
    \/ ScheduleOut
    \/ SwitchTo
    \/ Wfi
    \/ StAdvance

WideSpec == Init /\ [][WideNext]_vars

(***************************************************************************)
(* The system timer: a free-running counter read through two registers,    *)
(* CLO with its low bits and CHI with the bits above.                      *)
(***************************************************************************)
\* 2^32: the values of the register CLO.
CloSize == 2 ^ CloBits

\* The register CLO when the counter stands at c.
CLO(c) == c % CloSize

\* The register CHI when the counter stands at c.
CHI(c) == c \div CloSize

\* Timer::read: the microseconds made of the CLO and the CHI it has read.
Timer_read(lo, hi) == lo + hi * CloSize

\* The counter counts a microsecond.
TimerCount ==
    /\ counter < TimerMax
    /\ counter' = counter + 1
    /\ UNCHANGED <<ticks, ran, compare, prog, pt, called, lock, pend, rd, kern, located>>
    /\ UNCHANGED svars
    /\ UNCHANGED avars

\* Timer::read reads CLO, the left operand of its sum.
ReadCLO ==
    /\ rd.at = "idle"
    /\ rd' = [rd EXCEPT !.at = "chi", !.lo = CLO(counter)]
    /\ UNCHANGED <<ticks, ran, compare, prog, pt, called, lock, pend, counter, kern,
                   located>>
    /\ UNCHANGED svars
    /\ UNCHANGED avars

\* Timer::read reads CHI and returns; prev is what the call before returned.
ReadCHI ==
    /\ rd.at = "chi"
    /\ rd' = [at |-> "idle", lo |-> rd.lo, prev |-> rd.cur,
              cur |-> Timer_read(rd.lo, CHI(counter))]
    /\ UNCHANGED <<ticks, ran, compare, prog, pt, called, lock, pend, counter, kern,
                   located>>
    /\ UNCHANGED svars
    /\ UNCHANGED avars

TimerNext ==
    \/ TimerCount
    \/ ReadCLO
    \/ ReadCHI

TimerSpec == Init /\ [][TimerNext]_vars

(***************************************************************************)
(* The kernel page table.  KernPageTable::new takes the end of RAM from    *)
(* the memory map and the peripheral range from two constants and writes   *)
(* one L3 entry per page of each range, one loop pass at a time.           *)
(***************************************************************************)
\* The bytes the two L3 tables cover (1 GiB in the code).
KernSpace == 2 * L3Entries * PAGE_SIZE

\* The ends of RAM allocator::memory_map may report; NONE when it has none.
RamEnds == {e \in 0 .. KernSpace : e % (PAGE_SIZE \div 2) = 0} \cup {NONE}

\* The starts of the peripheral range: page-aligned.
IoBases == {a \in 0 .. KernSpace : a % PAGE_SIZE = 0}

\* The ends of the peripheral range.
IoEnds == {e \in 0 .. KernSpace : e % (PAGE_SIZE \div 2) = 0}

\* The L3 entry the second loop builds, with the attributes of the first.
KernIoEntry_mem(addr) ==
    [valid |-> TRUE, addr |-> (addr \div PAGE_SIZE) * PAGE_SIZE,
     attr |-> "Mem", sh |-> "ISh", ap |-> "KERN_RW"]

\* The L3 entry the first loop builds for the page at addr.
KernRamEntry(addr) ==
    [valid |-> TRUE, addr |-> (addr \div PAGE_SIZE) * PAGE_SIZE,
     attr |-> "Mem", sh |-> "ISh", ap |-> "KERN_RW"]

\* The L3 entry the second loop builds for the page at addr.
KernIoEntry(addr) ==
    [valid |-> TRUE, addr |-> (addr \div PAGE_SIZE) * PAGE_SIZE,
     attr |-> "Dev", sh |-> "OSh", ap |-> "KERN_RW"]

\* The L3 entry of table t that the translation of va ends at.
get_entry(t, va) ==
    LET loc == locate(va)
    IN  t.l3[t.l2[loc.l2].addr \div PAGE_SIZE][loc.l3]

\* KernPageTable::new up to its first loop: the table is made and the
\* memory map is read.
KernNew(ram_end, io_base, io_end) ==
    /\ kern.at = "none"
    /\ ~panicked
    /\ IF ram_end = NONE
       THEN /\ panicked' = TRUE
            /\ kern' = [kern EXCEPT !.at = "panic"]
            /\ UNCHANGED pt
       ELSE /\ panicked' = FALSE
            /\ kern' = [at |-> "ram", addr |-> 0, ram_end |-> ram_end,
                        io_base |-> io_base, io_end |-> io_end]
            /\ pt' = PageTable_new
    /\ UNCHANGED <<bins, live, heap, aop, aret, areq>>
    /\ UNCHANGED <<ticks, ran, compare, prog, called, lock, pend, counter, rd,
                   located>>
    /\ UNCHANGED svars

\* A pass of `while addr < end`, or its exit to the second loop.
KernMapRam ==
    /\ kern.at = "ram"
    /\ IF kern.addr < kern.ram_end
       THEN /\ pt' = set_entry(pt, kern.addr, KernRamEntry(kern.addr))
            /\ kern' = [kern EXCEPT !.addr = kern.addr + PAGE_SIZE]
       ELSE /\ kern' = [kern EXCEPT !.at = "io", !.addr = kern.io_base]
            /\ UNCHANGED pt
    /\ UNCHANGED avars
    /\ UNCHANGED <<ticks, ran, compare, prog, called, lock, pend, counter, rd,
                   located>>
    /\ UNCHANGED svars

\* A pass of `while addr < IO_BASE_END`, or the return of the table.
KernMapIo ==
    /\ kern.at = "io"
    /\ IF kern.addr < kern.io_end
       THEN /\ pt' = set_entry(pt, kern.addr, KernIoEntry(kern.addr))
            /\ kern' = [kern EXCEPT !.addr = kern.addr + PAGE_SIZE]
       ELSE /\ kern' = [kern EXCEPT !.at = "done"]
            /\ UNCHANGED pt
    /\ UNCHANGED avars
    /\ UNCHANGED <<ticks, ran, compare, prog, called, lock, pend, counter, rd,
                   located>>
    /\ UNCHANGED svars

\* PageTable::locate has no statement that panics.
locate_panics(va) == FALSE

\* A call of PageTable::locate with any address.
LocateCall(va) ==
    /\ located' = [va |-> va, panic |-> locate_panics(va),
                   l2 |-> locate(va).l2, l3 |-> locate(va).l3]
    /\ UNCHANGED avars
    /\ UNCHANGED svars
    /\ UNCHANGED <<ticks, ran, compare, prog, pt, called, lock, pend, counter, rd,
                   kern>>

LocateNext == \E va \in 0 .. VaSpace - 1 : LocateCall(va)

LocateSpec == Init /\ [][LocateNext]_vars

\* The peripheral range lies above RAM and inside the space of the table.
KernNext ==
    \/ \E ram_end \in RamEnds, io_base \in IoBases, io_end \in IoEnds :
          /\ ram_end <= io_base
          /\ io_base <= io_end
          /\ KernNew(ram_end, io_base, io_end)
    \/ KernMapRam
    \/ KernMapIo

KernSpec == Init /\ [][KernNext]_vars

(***************************************************************************)
(* Processes that are added, preempted, sleep, wake up and exit while      *)
(* others wait in the queue for their turn.                                *)
(***************************************************************************)
\* GlobalScheduler::add, before start or later; BwProcs processes in all.
BwAdd ==
    /\ pc \in {"boot", "user"}
    /\ Len(issued) < BwProcs
    /\ LET r == add(processes, last_id, NewProcess)
       IN  /\ processes' = r.q
           /\ last_id' = r.last
           /\ sret' = r.ret
           /\ issued' = IF r.ret = NONE THEN issued ELSE Append(issued, r.ret)
    /\ sop' = "add"
    /\ UNCHANGED <<tf, now, pc>>
    /\ UNCHANGED avars
    /\ UNCHANGED gvars

\* The free-running system timer advances.
BwAdvance ==
    /\ now < BwTime
    /\ now' = now + 1
    /\ sop' = "advance"
    /\ UNCHANGED <<processes, last_id, tf, pc, sret, issued>>
    /\ UNCHANGED avars
    /\ UNCHANGED gvars

\* The milliseconds a process sleeps for.
BwSleeps == {0, 1}

BwNext ==
    \/ BwAdd
    \/ Start
    \/ Ticc
    \/ \E ms \in BwSleeps : SysSleep(ms)
    \/ SysExit
    \/ Retry
    \/ BwAdvance

BwSpec == Init /\ [][BwNext]_vars

(***************************************************************************)
(* The system calls that return to their caller, among processes that are  *)
(* preempted, sleep and exit.                                              *)
(***************************************************************************)
\* GlobalScheduler::add from kmain, before start.
CallAdd ==
    /\ pc = "boot"
    /\ Len(processes) < CallProcs
    /\ LET r == add(processes, last_id, NewProcess)
       IN  /\ processes' = r.q
           /\ last_id' = r.last
           /\ sret' = r.ret
           /\ issued' = IF r.ret = NONE THEN issued ELSE Append(issued, r.ret)
    /\ sop' = "add"
    /\ UNCHANGED <<tf, now, pc>>
    /\ UNCHANGED avars
    /\ UNCHANGED gvars

\* The free-running system timer advances.
CallAdvance ==
    /\ now < CallTime
    /\ now' = now + 1
    /\ sop' = "advance"
    /\ UNCHANGED <<processes, last_id, tf, pc, sret, issued>>
    /\ UNCHANGED avars
    /\ UNCHANGED gvars

CallNext ==
    \/ CallAdd
    \/ Start
    \/ Ticc
    \/ SysSleep(1)
    \/ SysExit
    \/ Retry
    \/ CallAdvance
    \/ SysTime
    \/ SysWrite
    \/ SysGetpid
    \/ \E num \in UnknownNumbers : SysUnknown(num)

CallSpec == Init /\ [][CallNext]_vars

(***************************************************************************)
(* Allocator state machine.                                                *)
(***************************************************************************)
Starts == {8, 64}

Lens == {MaxLen - 4, MaxLen}

Layout(size, align) == [size |-> size, align |-> align]

\* The layouts requested: sizes below, at and above a power of two, and
\* alignments below, at and above the size.
Layouts == {Layout(1, 1), Layout(9, 8), Layout(8, 16), Layout(24, 16)}

AllocInit ==
    /\ \E s \in Starts, l \in Lens : heap = [start |-> s, end |-> s + l]
    /\ bins = absorb_memory(EmptyBins, heap.start, heap.end)
    /\ live = {}
    /\ aop = "new"
    /\ aret = NULL
    /\ areq = Layout(0, 0)
    /\ panicked = FALSE
    /\ SchedIdle
    /\ GhostIdle
    /\ PtIdle

Alloc(size, align) ==
    /\ ~panicked
    /\ Cardinality(live) < MaxLive
    /\ LET r == alloc(bins, size, align)
       IN  IF AllocPanics(bins, size, align)
           THEN /\ panicked' = TRUE
                /\ UNCHANGED <<bins, live>>
                /\ aret' = NULL
           ELSE /\ panicked' = FALSE
                /\ bins' = r.bins
                /\ aret' = r.ptr
                /\ live' = IF r.ptr = NULL THEN live
                           ELSE live \cup {[ptr |-> r.ptr, size |-> size,
                                            align |-> align]}
    /\ aop' = "alloc"
    /\ areq' = Layout(size, align)
    /\ UNCHANGED heap
    /\ UNCHANGED svars
    /\ UNCHANGED gvars

Dealloc(a) ==
    /\ ~panicked
    /\ a \in live
    /\ bins' = dealloc(bins, a.ptr, a.size, a.align)
    /\ live' = live \ {a}
    /\ aop' = "dealloc"
    /\ aret' = NULL
    /\ areq' = Layout(a.size, a.align)
    /\ UNCHANGED <<heap, panicked>>
    /\ UNCHANGED svars
    /\ UNCHANGED gvars

AllocNext ==
    \/ \E l \in Layouts : Alloc(l.size, l.align)
    \/ \E a \in live : Dealloc(a)

AllocSpec == AllocInit /\ [][AllocNext]_vars

\* alloc called again with the layout of the dealloc just made.
AllocAgain ==
    /\ ~panicked
    /\ aop = "dealloc"
    /\ LET r == alloc(bins, areq.size, areq.align)
       IN  /\ bins' = r.bins
           /\ aret' = r.ptr
           /\ live' = IF r.ptr = NULL THEN live
                      ELSE live \cup {[ptr |-> r.ptr, size |-> areq.size,
                                       align |-> areq.align]}
    /\ aop' = "alloc_again"
    /\ UNCHANGED <<heap, areq, panicked>>
    /\ UNCHANGED svars
    /\ UNCHANGED gvars

AgainNext ==
    \/ \E l \in Layouts : Alloc(l.size, l.align)
    \/ \E a \in live : Dealloc(a)
    \/ AllocAgain

AgainSpec == AllocInit /\ [][AgainNext]_vars

(***************************************************************************)
(* A fresh range filled with alloc(size = 8, align = 8) and nothing else.  *)
(***************************************************************************)
FillInit ==
    /\ \E s \in Starts : heap = [start |-> s, end |-> s + FillLen]
    /\ bins = absorb_memory(EmptyBins, heap.start, heap.end)
    /\ live = {}
    /\ aop = "new"
    /\ aret = NULL
    /\ areq = Layout(0, 0)
    /\ panicked = FALSE
    /\ SchedIdle
    /\ GhostIdle
    /\ PtIdle

Fill ==
    /\ ~panicked
    /\ LET r == alloc(bins, 8, 8)
       IN  /\ bins' = r.bins
           /\ aret' = r.ptr
           /\ live' = IF r.ptr = NULL THEN live
                      ELSE live \cup {[ptr |-> r.ptr, size |-> 8, align |-> 8]}
    /\ aop' = "alloc"
    /\ areq' = Layout(8, 8)
    /\ UNCHANGED <<heap, panicked>>
    /\ UNCHANGED svars
    /\ UNCHANGED gvars

FillNext == Fill

FillSpec == FillInit /\ [][FillNext]_vars

(***************************************************************************)
(* A range of PickLen bytes from address 8 under blocks of 32 bytes and    *)
(* requests aligned to 16: the free list of one class comes to hold        *)
(* several nodes that can serve a request, none of them at an aligned      *)
(* start.                                                                  *)
(***************************************************************************)
PickLayouts == {Layout(24, 8), Layout(8, 16)}

PickInit ==
    /\ heap = [start |-> 8, end |-> 8 + PickLen]
    /\ bins = absorb_memory(EmptyBins, heap.start, heap.end)
    /\ live = {}
    /\ aop = "new"
    /\ aret = NULL
    /\ areq = Layout(0, 0)
    /\ panicked = FALSE
    /\ SchedIdle
    /\ GhostIdle
    /\ PtIdle

PickNext ==
    \/ \E l \in PickLayouts : Alloc(l.size, l.align)
    \/ \E a \in live : Dealloc(a)

PickSpec == PickInit /\ [][PickNext]_vars

(***************************************************************************)
(* Allocator properties.                                                   *)
(***************************************************************************)
\* The effective block size and alignment of a layout, as the design
\* document gives them.
EffSize(l) == Max(8, Max(next_power_of_two(l.size), l.align))

EffAlign(l) == Max(8, l.align)

FreeIdx == UNION {{<<k, i>> : i \in 1 .. Len(bins[k])} : k \in Bins}

FreeLo(x) == bins[x[1]][x[2]]

FreeHi(x) == bins[x[1]][x[2]] + BlockSize(x[1])

Disjoint(lo1, hi1, lo2, hi2) == hi1 <= lo2 \/ hi2 <= lo1

RECURSIVE SumFree(_)
SumFree(k) ==
    (IF Len(bins[k]) = 0 THEN 0 ELSE Len(bins[k]) * BlockSize(k))
    + (IF k = 0 THEN 0 ELSE SumFree(k - 1))

FreeBytes == SumFree(NBINS - 1)

RECURSIVE SumLive(_)
SumLive(S) ==
    IF S = {} THEN 0
    ELSE LET a == CHOOSE x \in S : TRUE
         IN  EffSize(a) + SumLive(S \ {a})

LiveBytes == SumLive(live)

RECURSIVE CeilLog2From(_, _, _)
CeilLog2From(e, p, n) == IF p >= n THEN e ELSE CeilLog2From(e + 1, 2 * p, n)

CeilLog2(n) == CeilLog2From(0, 1, n)

\* C1: every pointer alloc returned is a multiple of the requested alignment
\* and its size bytes lie inside the range given to Allocator::new.
C1_AlignedInRange ==
    /\ \A a \in live :
          /\ a.ptr % a.align = 0
          /\ heap.start <= a.ptr
          /\ a.ptr + a.size <= heap.end
    /\ (aop = "alloc" /\ aret # NULL) =>
          /\ aret % areq.align = 0
          /\ heap.start <= aret
          /\ aret + areq.size <= heap.end

\* An alloc with alignment 16 returned a pointer that is not the start of
\* the range while another allocation is live.
C1_Witness ==
    /\ aop = "alloc" /\ aret # NULL /\ areq.align = 16
    /\ aret # heap.start
    /\ Cardinality(live) >= 2

\* C2: live allocations do not overlap each other, no live allocation
\* overlaps a free block, and no two free blocks overlap.
C2_NoOverlap ==
    /\ \A a, c \in live :
          a # c => Disjoint(a.ptr, a.ptr + EffSize(a), c.ptr, c.ptr + EffSize(c))
    /\ \A a \in live : \A x \in FreeIdx :
          Disjoint(a.ptr, a.ptr + EffSize(a), FreeLo(x), FreeHi(x))
    /\ \A x, y \in FreeIdx :
          x # y => Disjoint(FreeLo(x), FreeHi(x), FreeLo(y), FreeHi(y))

\* After a dealloc two allocations are live and free blocks exist.
C2_Witness ==
    /\ aop = "dealloc"
    /\ Cardinality(live) = 2
    /\ Cardinality(FreeIdx) >= 2

\* C3: over an 8-byte-aligned range the free bytes plus the effective sizes
\* of the live allocations make up the whole range, and the free bytes
\* never exceed it.
C3_Accounting ==
    (heap.start % 8 = 0 /\ heap.end % 8 = 0) =>
        /\ FreeBytes + LiveBytes = heap.end - heap.start
        /\ FreeBytes <= heap.end - heap.start

\* An 8-byte-aligned range after a dealloc, with live and free bytes.
C3_Witness ==
    /\ heap.start % 8 = 0 /\ heap.end % 8 = 0
    /\ aop = "dealloc"
    /\ LiveBytes > 0 /\ FreeBytes > 0

\* C4 (as claimed): every block on the class-k list starts at a multiple of
\* 2^(k+3).
C4_ClassAligned ==
    \A x \in FreeIdx : FreeLo(x) % BlockSize(x[1]) = 0

\* C4 (amended): every block on the class-k list starts at a multiple of 8
\* and its 2^(k+3) bytes lie inside the managed range.
C4_WordAligned ==
    \A x \in FreeIdx :
        /\ FreeLo(x) % 8 = 0
        /\ heap.start <= FreeLo(x)
        /\ FreeHi(x) <= heap.end

\* Over a range that starts at a multiple of 64, after an alloc a block of a
\* class above 0 sits at an address that is not a multiple of its size.
C4_Witness ==
    /\ heap.start % 64 = 0
    /\ aop = "alloc" /\ aret # NULL
    /\ \E x \in FreeIdx : x[1] > 0 /\ FreeLo(x) % BlockSize(x[1]) # 0

\* No block on any list can hold an aligned sub-block of the effective size.
NoRoom(b, l) ==
    \A k \in Bins : \A i \in 1 .. Len(b[k]) :
        ~ \E p \in b[k][i] .. (b[k][i] + BlockSize(k)) :
              /\ p % EffAlign(l) = 0
              /\ p + EffSize(l) <= b[k][i] + BlockSize(k)

\* C5: when no free block can hold the request alloc returns null without
\* panicking, and an alloc that returns null leaves every list as it was.
C5_FailedAllocKeepsLists ==
    [][ /\ (aop' = "alloc" /\ NoRoom(bins, areq')) =>
              (aret' = NULL /\ ~panicked')
        /\ (aop' = "alloc" /\ aret' = NULL) =>
              (bins' = bins /\ live' = live /\ NoRoom(bins, areq')) ]_vars

\* An alloc returned null while allocations are live and blocks are free.
C5_Witness ==
    /\ aop = "alloc" /\ aret = NULL /\ ~panicked
    /\ live # {}
    /\ FreeIdx # {}

\* C6: filling a fresh range of N bytes with alloc(8, 8), null is not
\* returned before N/8 - ceil(log2 N) * 8 bytes have been handed out.
C6_FillBound ==
    (aop = "alloc" /\ aret = NULL) =>
        8 * Cardinality(live) >=
            ((heap.end - heap.start) \div 8)
              - CeilLog2(heap.end - heap.start) * 8

\* The fill ran into null on a range whose bound is positive.
C6_Witness ==
    /\ aop = "alloc" /\ aret = NULL
    /\ ((heap.end - heap.start) \div 8)
          - CeilLog2(heap.end - heap.start) * 8 > 0
    /\ \A a \in live : a.size = 8 /\ a.align = 8

(***************************************************************************)
(* Scheduler properties.                                                   *)
(***************************************************************************)
RunningAt == {i \in 1 .. Len(processes) : processes[i].state.kind = "Running"}

WaitingAt == {i \in 1 .. Len(processes) : processes[i].state.kind = "Waiting"}

\* C7: at most one process of the queue is in state Running.
C7_OneRunning == Cardinality(RunningAt) <= 1

\* Out of the idle loop a process whose sleep had ended was dispatched
\* while another is still Waiting.
C7_Witness ==
    /\ sop = "retry" /\ sret # NONE
    /\ Len(processes) = MaxProcs
    /\ Cardinality(RunningAt) = 1
    /\ WaitingAt # {}

\* C8: a process in state Running is the front element of the queue.
C8_RunningAtFront == \A i \in RunningAt : i = 1

\* A timer tick dispatched a process and it stands in front of a Waiting
\* one.
C8_Witness ==
    /\ sop = "tick" /\ sret # NONE
    /\ RunningAt = {1}
    /\ 2 \in WaitingAt

\* C9: the saved tpidr of every queued process is the PID add returned for
\* it.
C9_TpidrIsPid ==
    \A i \in 1 .. Len(processes) :
        processes[i].context.tpidr = processes[i].pid

\* A process with a PID above 0 was scheduled out by a tick after a sleep
\* had delivered its results into the saved context.
C9_Witness ==
    /\ sop = "tick"
    /\ \E i \in 2 .. Len(processes) :
          /\ processes[i].pid > 0
          /\ processes[i].state.kind = "Ready"
          /\ processes[i].context.x7 = 1

\* C10: add hands out 0 first and last_id + 1 afterwards, stores the PID in
\* the saved tpidr of the process it appends at the back; the PIDs handed
\* out increase strictly, no two queued processes share one and none is
\* handed out twice.
C10_PidsFresh ==
    /\ \A k \in 1 .. Len(issued) : issued[k] = k - 1
    /\ last_id = (IF issued = <<>> THEN NONE ELSE issued[Len(issued)])
    /\ \A i, j \in 1 .. Len(processes) :
          i # j => processes[i].context.tpidr # processes[j].context.tpidr
    /\ \A i \in 1 .. Len(processes) :
          \E k \in 1 .. Len(issued) : issued[k] = processes[i].context.tpidr
    /\ (sop = "add" /\ sret # NONE) =>
          /\ processes # <<>>
          /\ processes[Len(processes)].context.tpidr = sret
          /\ processes[Len(processes)].state = Ready
          /\ sret = last_id

\* add returned a PID after an earlier process had left the queue.
C10_Witness ==
    /\ sop = "add" /\ sret # NONE
    /\ Len(issued) > Len(processes)
    /\ Len(processes) >= 2

\* C11 as stated: the add that follows IdMax successful adds returns None.
C11_NoneAfterMax ==
    [][(sop' = "add" /\ Len(issued) = IdMax) => sret' = NONE]_vars

\* C11: add hands out the PIDs 0 .. IdMax, so it returns None exactly when
\* IdMax + 1 adds have succeeded before it, and then it leaves the queue and
\* last_id as they were.
C11_NoneAfterMaxPlusOne ==
    [][sop' = "add" =>
          /\ (sret' = NONE) <=> (Len(issued) = IdMax + 1)
          /\ (sret' = NONE) =>
                /\ processes' = processes
                /\ last_id' = last_id
                /\ last_id = IdMax]_vars

\* add returned None after every PID had been handed out.
C11_Witness ==
    /\ sop = "add" /\ sret = NONE
    /\ Len(issued) = IdMax + 1
    /\ last_id = IdMax

\* C12: with N processes added, all Ready, and the scheduler started, every
\* one of them has been Running once N timer ticks have been delivered; the
\* processes dispatched after k ticks are the first k + 1 of them.
C12_AllRunWithinN ==
    pc = "user" =>
        /\ ticks >= Len(processes) =>
              \A i \in 1 .. Len(processes) : processes[i].pid \in ran
        /\ ran = {pid \in 0 .. Len(processes) - 1 : pid <= ticks}

\* The tick that completes the first round of the longest queue.
C12_Witness ==
    /\ sop = "tick"
    /\ Len(processes) = MaxRR
    /\ ticks = Len(processes) - 1
    /\ \A i \in 1 .. Len(processes) : processes[i].pid \in ran

\* A Waiting process whose predicate answers false at every time the timer
\* of the model can show.
NeverDue(p) == p.state.kind = "Waiting" /\ p.state.end > MaxTime

\* C13: a Waiting process whose predicate always answers false stays in the
\* queue through every step with the same state, predicate and saved
\* context; it is never the process a step dispatches and no step copies its
\* context into the trap frame.
C13_WaitingStays ==
    [][\A i \in 1 .. Len(processes) :
          NeverDue(processes[i]) =>
              /\ \E j \in 1 .. Len(processes') : processes'[j] = processes[i]
              /\ \A j \in 1 .. Len(processes') :
                    processes'[j].pid = processes[i].pid =>
                        processes'[j] = processes[i]
              /\ tf' # tf => tf'.tpidr # processes[i].pid
              /\ sop' \in {"start", "tick", "sleep", "exit", "retry"} =>
                    sret' # processes[i].pid]_vars

\* A tick passed over such a process and dispatched the one behind it.
C13_Witness ==
    /\ sop = "tick" /\ sret # NONE
    /\ Len(processes) >= 2
    /\ NeverDue(processes[2])
    /\ processes[1].state.kind = "Running"

Pids(q) == [i \in 1 .. Len(q) |-> q[i].pid]

\* C14: kill for the Running process takes exactly that process out of the
\* queue, every other one stays, and unless the queue held only the killed
\* process the trap frame afterwards holds the context of a queued process
\* with another PID.
C14_KillDispatchesOther ==
    [][(sop' = "kill" /\ sret' # NONE) =>
          /\ Len(processes') = Len(processes) - 1
          /\ \A j \in 1 .. Len(processes') : processes'[j].pid # sret'
          /\ \A i \in 1 .. Len(processes) :
                processes[i].pid # sret' =>
                    \E j \in 1 .. Len(processes') :
                        processes'[j].pid = processes[i].pid
          /\ Len(processes) > 1 =>
                /\ tf'.tpidr # sret'
                /\ \E j \in 1 .. Len(processes') :
                      tf' = processes'[j].context]_vars

\* C18: a system call whose number names none of the five calls returns
\* with x7 = 0.
C18_UnknownFails == sop = "unknown" => tf.x7 = 0

\* C19: a synchronous exception of a user process that is neither Svc nor
\* Brk does not stop the system: the CPU never stays in the handler.
C19_NeverStops == pc # "hung"

\* The programs that have read the time, slept and read the time again.
Measured == {pid \in 0 .. IdMax : prog[pid].step = "done"}

\* C16 as stated: the two readings differ by at least d and at most
\* d + TICK, whatever else is in the queue.
C16_WithinOneTick ==
    \A pid \in Measured :
        /\ prog[pid].t2 - prog[pid].t1 >= prog[pid].d
        /\ prog[pid].t2 - prog[pid].t1 <= prog[pid].d + TICK

\* C16: the two readings differ by at least d, and by at most d + TICK when
\* the process is the only one in the queue.
C16_AtLeastAndAlone ==
    \A pid \in Measured :
        /\ prog[pid].t2 - prog[pid].t1 >= prog[pid].d
        /\ Len(processes) = 1 =>
              prog[pid].t2 - prog[pid].t1 <= prog[pid].d + TICK

\* A process alone in the queue was woken by the timer match after its
\* sleep had ended and read a difference above d.
C16_Witness ==
    /\ Len(processes) = 1
    /\ \E pid \in Measured :
          /\ prog[pid].d >= 1
          /\ prog[pid].t2 - prog[pid].t1 > prog[pid].d

\* C20: on a UserPageTable, is_valid answers true for the page-aligned
\* addresses at or above USER_IMG_BASE that alloc has mapped and false for
\* every other one, after any sequence of allocs.
C20_ValidIffAllocated ==
    pt # NoTable =>
        \A va \in PageVAs :
            va >= USER_IMG_BASE => (is_valid(pt, va) <=> va \in called)

\* alloc has mapped a page under each of the two L3 tables and left
\* another address unmapped.
C20_Witness ==
    /\ aop = "pt_alloc" /\ ~panicked
    /\ \E va, vb \in called : locate(va).l2 = 0 /\ locate(vb).l2 = 1
    /\ \E va \in PageVAs : va >= USER_IMG_BASE /\ va \notin called

\* The PIDs add has handed out that are no longer in the queue.
Gone == {issued[k] : k \in 1 .. Len(issued)} \ {processes[i].pid : i \in 1 .. Len(processes)}

\* The blocks on the free lists that span at least a page.
FreePages ==
    UNION {{bins[k][i] : i \in 1 .. Len(bins[k])} :
              k \in {c \in Bins : Len(bins[c]) > 0 /\ BlockSize(c) >= PAGE_SIZE}}

\* C17: the step in which a process exits takes it alone out of the queue,
\* leaves every other process in the queue as it was unless it is the one
\* dispatched, dispatches none with the PID of the exited one, and puts
\* every page its page table mapped on a free list; a PID that has left the
\* queue is in no later queue and is never dispatched.
ExitStep ==
    [][/\ (sop' = "exit" /\ FindRunning(processes, tf) # 0) =>
              LET p == processes[FindRunning(processes, tf)]
              IN  /\ \A j \in 1 .. Len(processes') : processes'[j].pid # p.pid
                  /\ Len(processes') = Len(processes) - 1
                  /\ \A i \in 1 .. Len(processes) :
                        processes[i].pid # p.pid =>
                            \E j \in 1 .. Len(processes') :
                                /\ processes'[j].pid = processes[i].pid
                                /\ \/ processes'[j] = processes[i]
                                   \/ /\ j = 1
                                      /\ processes'[j].state = Running
                                      /\ sret' = processes[i].pid
                  /\ sret' # p.pid
                  /\ pc' = "user" => tf'.tpidr # p.pid
                  /\ MappedPages(p.vmap) # {}
                  /\ \A page \in MappedPages(p.vmap) :
                        /\ page \in FreePages'
                        /\ \A a \in live' : a.ptr # page
       /\ \A pid \in Gone :
              /\ \A j \in 1 .. Len(processes') : processes'[j].pid # pid
              /\ sop' \in {"start", "tick", "exit", "retry"} => sret' # pid]_vars

C21_PanicKeepsTable ==
    [][\A va \in PageVAs :
          PtAlloc(va) =>
             /\ panicked' <=> \/ va < USER_IMG_BASE
                              \/ va \in called
                              \/ alloc(bins, PAGE_SIZE, PAGE_SIZE).ptr = NULL
             /\ panicked' => pt' = pt
             /\ (va < USER_IMG_BASE \/ va \in called) =>
                   bins' = bins /\ live' = live]_vars

\* alloc has panicked for want of a page, after panics of the other two
\* kinds were possible: pages are mapped and the table is as before.
C21_Witness ==
    /\ panicked
    /\ aop = MsgNoPage
    /\ called # {}
    /\ \A va \in called : is_valid(pt, va)

\* C22: dropping a UserPageTable on which alloc succeeded n times calls
\* dealloc exactly n times, once with each physical page alloc returned and
\* the layout of a page, and with no other address.
C22_DropFreesEachOnce ==
    [][PtDrop =>
          LET c == Drop(pt, bins).calls
          IN  /\ Len(c) = Cardinality(called)
              /\ {c[k] : k \in 1 .. Len(c)} = live
              /\ \A k \in 1 .. Len(c) :
                    c[k].size = PAGE_SIZE /\ c[k].align = PAGE_SIZE]_vars

\* A table with a page under each L3 table has been dropped and its pages
\* are back on the free lists.
C22_Witness ==
    /\ aop = "pt_drop"
    /\ pt = NoTable
    /\ \E va, vb \in called : locate(va).l2 = 0 /\ locate(vb).l2 = 1
    /\ live = {}
    /\ Cardinality(FreePages) >= 2

\* The queue without its entry i.
Without(q, i) == [k \in 1 .. Len(q) - 1 |-> q[IF k < i THEN k ELSE k + 1]]

ReadyAt(q, t) ==
    {i \in 1 .. Len(q) :
        \/ q[i].state.kind = "Ready"
        \/ q[i].state.kind = "Waiting" /\ t >= q[i].state.end}

\* C24: switch_to takes the ready entry closest to the front, moves it to
\* the front as Running, copies its saved context into tf and returns its
\* PID; the entries it passed over and the entries behind stay as they were
\* and in their order.  With no ready entry it returns None and leaves the
\* queue and tf alone.
C24_SwitchToFirstReady ==
    [][SwitchTo =>
          LET R == ReadyAt(processes, now)
          IN  IF R = {}
              THEN sret' = NONE /\ processes' = processes /\ tf' = tf
              ELSE \E i \in R :
                      /\ \A j \in R : i <= j
                      /\ sret' = processes[i].pid
                      /\ Len(processes') = Len(processes)
                      /\ processes'[1].pid = processes[i].pid
                      /\ processes'[1].state = Running
                      /\ tf' = processes'[1].context
                      /\ tf'.tpidr = sret'
                      /\ \A k \in 2 .. Len(processes) :
                            processes'[k] = Without(processes, i)[k - 1]]_vars

\* After a tick the process that ran went to the back behind two sleepers;
\* switch_to passed over both and dispatched it again.
C24_Witness ==
    /\ sop = "switch_to"
    /\ pc = "user"
    /\ pend = Ready
    /\ Len(processes) = 3
    /\ processes[1].state = Running
    /\ processes[2].state.kind = "Waiting" /\ processes[2].state.end > now
    /\ processes[3].state.kind = "Waiting" /\ processes[3].state.end > now
    /\ processes[2].state.start <= processes[3].state.start

C27_PredicateFiresOnce ==
    [][/\ SwitchTo =>
            \A i \in 1 .. Len(processes) :
               (/\ processes[i].state.kind = "Waiting"
                /\ now >= processes[i].state.end
                /\ \A j \in 1 .. i - 1 : j \notin ReadyAt(processes, now)) =>
                    /\ processes'[1].pid = processes[i].pid
                    /\ processes'[1].state = Running
                    /\ processes'[1].context.x0 = now - processes[i].state.start
                    /\ processes'[1].context.x7 = 1
                    /\ tf' = processes'[1].context
       /\ \A i \in 1 .. Len(processes) : \A k \in 1 .. Len(processes') :
             (/\ processes'[k].pid = processes[i].pid
              /\ processes[i].state.kind = "Waiting"
              /\ processes'[k].state.kind # "Waiting") =>
                  /\ sop' = "switch_to"
                  /\ now >= processes[i].state.end
                  /\ k = 1]_vars

\* A sleeper has been dispatched a millisecond after it went to sleep, with
\* the results of sleep in its trap frame.
C27_Witness ==
    /\ sop = "switch_to"
    /\ pc = "user"
    /\ now >= 1
    /\ tf.x7 = 1 /\ tf.x0 = 1
    /\ processes[1].state = Running
    /\ processes[1].context = tf

\* C29: the lock of the scheduler is held only inside the closure of a
\* critical: it is free before each lock(), between schedule_out and
\* switch_to, in wfi and in user mode.
C29_LockOnlyInCritical ==
    /\ lock => pc \in {"out", "to"}
    /\ pc \in {"out_lock", "to_lock", "wfi", "user", "boot"} => Mutex_free(lock)

\* The loop of switch_to waits for an interrupt with the lock released,
\* after schedule_out and switch_to have each held it.
C29_Witness ==
    /\ pc = "wfi"
    /\ sop = "switch_to"
    /\ ~lock
    /\ Len(processes) >= 1

\* C25: kill(tf) leaves what switch(Dead, tf) leaves when it returns: the
\* queue and the trap frame of a dispatch of the remaining processes, made
\* at the time of the call or, when no process is ready then, later.
C25_KillIsSwitchDead ==
    [][(Kill /\ Len(processes) >= 2) =>
          \E t \in now .. MaxTime + MaxSleep :
             LET r == switch_to(schedule_out(processes, Dead, tf).q, tf, t)
             IN  /\ r.ret # NONE
                 /\ processes' = r.q
                 /\ tf' = r.tf]_vars

\* C28: a process that called sleep with x0 in register x0 is dispatched
\* again only when at least x0 milliseconds have passed since the call,
\* for every u64 x0.
C28_SleepsFullX0 ==
    [][SwitchTo =>
          \A i \in 1 .. Len(processes) :
             (/\ processes[i].state.kind = "Waiting"
              /\ processes'[1].pid = processes[i].pid
              /\ processes'[1].state = Running) =>
                 now >= processes[i].state.start + processes[i].context.x0]_vars

\* C30: of two Timer::read calls the later returns no less than the
\* earlier.
C30_ReadMonotonic == rd.prev # NONE => rd.cur >= rd.prev

\* The bytes of the blocks on the free lists b.
FreeSet(b) ==
    UNION {UNION {b[k][i] .. (b[k][i] + BlockSize(k) - 1) : i \in 1 .. Len(b[k])} :
              k \in Bins}

\* The sizes and the power-of-two alignments of a layout that fits the range.
LayoutSizes == 1 .. MaxLen

LayoutAligns == {1, 2, 4, 8, 16, 32, 64}

\* C31: alloc and dealloc compute the same effective block size
\* B = max(8, next_pow2(size), align) from a layout; an alloc that returns p
\* takes exactly the bytes [p, p+B) off the free lists and the dealloc of p
\* with the same layout puts exactly those bytes back.  The sizes do not
\* depend on the state: they are compared on the first step of a run.
C31_SameBlock ==
    [][/\ aop = "new" =>
             \A sz \in LayoutSizes : \A al \in LayoutAligns :
                /\ target_size(sz, al) = EffSize(Layout(sz, al))
                /\ dealloc_target_size(sz, al) = target_size(sz, al)
       /\ (aop' = "alloc" /\ aret' # NULL) =>
             /\ FreeSet(bins') \subseteq FreeSet(bins)
             /\ FreeSet(bins) \ FreeSet(bins')
                  = aret' .. (aret' + EffSize(areq') - 1)
       /\ aop' = "dealloc" =>
             \E a \in live :
                /\ live' = live \ {a}
                /\ FreeSet(bins) \cap (a.ptr .. (a.ptr + EffSize(a) - 1)) = {}
                /\ FreeSet(bins')
                     = FreeSet(bins) \cup (a.ptr .. (a.ptr + EffSize(a) - 1))]_vars

\* A block of 16 bytes asked for with size 8 and alignment 16 has been given
\* back while another allocation is live.
C31_Witness ==
    /\ aop = "dealloc"
    /\ areq = Layout(8, 16)
    /\ live # {}
    /\ Cardinality(FreeIdx) >= 2

\* The lowest class of b with a node that can serve the layout l; NBINS when
\* there is none.
LowestClass(b, l) ==
    LET ks == {k \in Bins : \E i \in 1 .. Len(b[k]) :
                  Accommodates(b[k][i], k, l.size, l.align)}
    IN  IF ks = {} THEN NBINS ELSE CHOOSE k \in ks : \A j \in ks : k <= j

\* C32: in the lowest class with a node that can serve the request, alloc
\* returns the start of a node at an aligned start if the class has one, and
\* otherwise the aligned start inside the first node, in list order, that
\* can serve it, absorbing the head and the tail of that node again.
C32_FirstCandidate ==
    [][(aop' = "alloc" /\ aret' # NULL) =>
          LET l == areq'
              k == LowestClass(bins, l)
              ok == {i \in 1 .. Len(bins[k]) :
                        Accommodates(bins[k][i], k, l.size, l.align)}
              exact == {i \in ok : bins[k][i] % EffAlign(l) = 0}
              first == CHOOSE i \in ok : \A j \in ok : i <= j
              n == bins[k][first]
              soa == align_up(n, EffAlign(l))
              popped == [bins EXCEPT ![k] = pop(bins[k], first)]
          IN  /\ k < NBINS
              /\ IF exact # {}
                 THEN \E i \in exact : aret' = bins[k][i]
                 ELSE /\ aret' = soa
                      /\ bins' = absorb_memory(absorb_memory(popped, n, soa),
                                       soa + EffSize(l), n + BlockSize(k))]_vars

\* The class whose blocks have the size B, a power of two from 8 up.
ClassOf(B) == CeilLog2(B) - 3

\* C33: dealloc never coalesces: it pushes one block, at ptr, onto the list
\* of the class whose block size is the effective size of the layout, and
\* leaves the other lists and the blocks already listed as they were, also
\* when the block next to it, of the same size, is free.
C33_NoCoalescing ==
    [][aop' = "dealloc" =>
          \E a \in live :
             /\ live' = live \ {a}
             /\ BlockSize(ClassOf(EffSize(a))) = EffSize(a)
             /\ bins' = [bins EXCEPT ![ClassOf(EffSize(a))] = <<a.ptr>> \o @]]_vars

\* A block has been freed into a list that holds the block of the same size
\* right after it or right before it.
C33_Witness ==
    /\ aop = "dealloc"
    /\ \E k \in Bins :
          /\ Len(bins[k]) >= 2
          /\ BlockSize(k) = EffSize(areq)
          /\ \E j \in 2 .. Len(bins[k]) :
                \/ bins[k][j] = bins[k][1] + BlockSize(k)
                \/ bins[k][j] + BlockSize(k) = bins[k][1]

\* The page-aligned addresses of [lo, hi).
PagesOf(lo, hi) == {a \in lo .. hi - 1 : a % PAGE_SIZE = 0}

\* C34: once KernPageTable::new has written the entries of RAM they stay:
\* from the end of the first loop on, the entry located for every
\* page-aligned a in [0, ram_end) is valid with ADDR = a, normal memory,
\* inner-shareable, KERN_RW; and when new returns the entry located for every
\* page-aligned a in [IO_BASE, IO_BASE_END) is valid with ADDR = a, device
\* memory, outer-shareable, KERN_RW.
C34_KernIdentityMap ==
    /\ kern.at \in {"io", "done"} =>
          \A a \in PagesOf(0, kern.ram_end) :
             get_entry(pt, a) = [valid |-> TRUE, addr |-> a, attr |-> "Mem",
                                 sh |-> "ISh", ap |-> "KERN_RW"]
    /\ kern.at = "done" =>
          \A a \in PagesOf(kern.io_base, kern.io_end) :
             get_entry(pt, a) = [valid |-> TRUE, addr |-> a, attr |-> "Dev",
                                 sh |-> "OSh", ap |-> "KERN_RW"]

\* new has returned a table with RAM pages under both L3 tables and a
\* peripheral page.
C34_Witness ==
    /\ kern.at = "done"
    /\ kern.ram_end > L3Entries * PAGE_SIZE
    /\ kern.io_base >= kern.ram_end
    /\ kern.io_end > kern.io_base
    /\ get_entry(pt, kern.io_base).attr = "Dev"
    /\ get_entry(pt, 0).attr = "Mem"

\* C35: PageTable::locate panics for an address that is not a multiple of
\* the page size and for one whose L2 index is not below the number of L3
\* tables, and for no other; otherwise it returns the L2 and L3 index of
\* the address.
C35_LocateChecks ==
    located.va # NONE =>
        LET l2 == located.va \div (L3Entries * PAGE_SIZE)
        IN  /\ located.panic <=> (located.va % PAGE_SIZE # 0 \/ l2 >= 2)
            /\ ~located.panic =>
                  /\ located.l2 = l2
                  /\ located.l3 = (located.va \div PAGE_SIZE) % L3Entries

\* C36: Process::is_ready changes the state of a process only when it
\* answers true.  A pass of switch_to dispatches the process whose is_ready
\* answered true, so every process whose state the pass changed is the one
\* it dispatched: the processes is_ready answered false for, Running, Dead
\* or Waiting, keep their state.
C36_FalseKeepsState ==
    [][SwitchTo =>
          \A i \in 1 .. Len(processes) : \A k \in 1 .. Len(processes') :
             (/\ processes'[k].pid = processes[i].pid
              /\ processes'[k].state # processes[i].state) =>
                 /\ k = 1
                 /\ processes'[1].state = Running
                 /\ sret' = processes[i].pid]_vars

\* The context switches: a tick, a sleep or an exit of the running process.
ContextSwitches == {"tick", "sleep", "exit"}

C38_FreeThenAlloc == aop = "alloc_again" => aret # NULL

\* The alloc after a dealloc has returned a block of 32 bytes while two
\* other allocations are live.
C38_Witness ==
    /\ aop = "alloc_again"
    /\ aret # NULL
    /\ areq = Layout(24, 16)
    /\ Cardinality(live) = 3

\* The system calls that return to their caller, named as the steps name
\* them.
ReturningCalls == {"time", "write", "getpid", "unknown"}

\* C39: the time, write and getpid system calls and an svc with a number
\* that names no system call do not reschedule: the queue with the state and
\* the saved context of every process is as before, the trap frame differs
\* in x0, x1 and x7 at most, and the caller is the Running process at the
\* front of the queue when the call returns.
C39_CallsReturnToCaller ==
    [][sop' \in ReturningCalls =>
          /\ processes' = processes
          /\ tf'.tpidr = tf.tpidr
          /\ pc' = "user"
          /\ Len(processes') >= 1
          /\ processes'[1].state = Running
          /\ processes'[1].context.tpidr = tf'.tpidr]_vars

\* getpid has returned the PID 1 to a process that runs with another one
\* queued behind it.
C39_Witness ==
    /\ sop = "getpid"
    /\ pc = "user"
    /\ tf.tpidr = 1
    /\ tf.x0 = 1 /\ tf.x7 = 1
    /\ Len(processes) >= 2
    /\ processes[1].state = Running

\* The pages the page tables of the queued processes map.
QueuedPages == UNION {MappedPages(processes[i].vmap) : i \in 1 .. Len(processes)}

\* C40: when Process::load returns an error after it allocated user pages,
\* every page of the attempt is on a free list again, no other page is
\* freed, and the queue is as it was before the attempt: the step that
\* returns the error frees the pages of the table of the attempt, and after
\* it the live pages are those of the queued processes.
C40_FailedLoadFrees ==
    [][aop' = "load_err" =>
          /\ MappedPages(pt) # {}
          /\ \A a \in MappedPages(pt) : a \in FreeSet(bins') /\ a \notin FreeSet(bins)
          /\ FreeSet(bins') \ FreeSet(bins)
               = UNION {a .. (a + PAGE_SIZE - 1) : a \in MappedPages(pt)}
          /\ live' = PageAllocs(QueuedPages)
          /\ processes' = processes
          /\ issued' = issued]_vars

\* A read failed after the page of the stack and a page of the program were
\* allocated, while a loaded process keeps its pages.
C40_Witness ==
    /\ aop = "load_err"
    /\ Cardinality(called) >= 2
    /\ Len(processes) >= 1
    /\ live # {}
    /\ FreePages # {}

====
